---- MODULE Spec2Model ----
(***************************************************************************)
(* Execution core of the macropad firmware.                                *)
(*                                                                         *)
(* Part I   MacroExecutor and its MacroState   (src/macro_engine.py)       *)
(* Part II  MacroState v2                      (src/macro_state.py)        *)
(*          QueueManager                       (src/queue_manager.py)      *)
(*          ActionExecutor.execute             (src/action_executor.py)    *)
(*          main loop                          (src/code.py)               *)
(*                                                                         *)
(* Time.  Every deadline in the source is time.monotonic() + wait and is   *)
(* only ever compared with a later reading of time.monotonic().  The model *)
(* stores a deadline as the time that is left until it (milliseconds);     *)
(* TimePasses lets TimeStep milliseconds go by.  A deadline is reached     *)
(* (now >= deadline) exactly when the time left is 0.                      *)
(***************************************************************************)
EXTENDS Integers, Sequences, FiniteSets, TLC

\* Python's None, for key ids and deadlines (both are >= 0 when set).
None == 0 - 1

\* Number of configured keys (key ids 0 .. NumKeys-1; the firmware has 12).
NumKeys == 3

Keys == 0 .. (NumKeys - 1)

\* Milliseconds that go by in one TimePasses step.
TimeStep == 500

Max(a, b) == IF a >= b THEN a ELSE b

Range(f) == {f[i] : i \in DOMAIN f}

\* Time left on a deadline after TimeStep more milliseconds.
Elapse(d) == IF d = None THEN None ELSE Max(0, d - TimeStep)

\* now >= deadline, for a deadline that is set.
Reached(d) == d = 0

(***************************************************************************)
(* Actions of a macro (profile JSON).  One record shape for all types:     *)
(* wait is the inline "wait" (0 when absent), ms the duration of a "wait"  *)
(* action, count/actions the body of a "repeat".                           *)
(***************************************************************************)
Press(w) == [type |-> "press", wait |-> w, ms |-> 0, count |-> 0, actions |-> <<>>]

Wait(ms) == [type |-> "wait", wait |-> 0, ms |-> ms, count |-> 0, actions |-> <<>>]

Repeat(n, body) == [type |-> "repeat", wait |-> 0, ms |-> 0, count |-> n, actions |-> body]

\* The None that get_current_action returns.
NoAction == [type |-> "none", wait |-> 0, ms |-> 0, count |-> 0, actions |-> <<>>]

\* The IndexError that indexing an empty list raises, in place of the value
\* the call would have returned.
IndexError == [type |-> "IndexError", wait |-> 0, ms |-> 0, count |-> 0, actions |-> <<>>]

(***************************************************************************)
(* Part I.  src/macro_engine.py: MacroState and MacroExecutor.             *)
(***************************************************************************)

\* The macro configurations the executor is constructed with, by key.
\* Five shapes, repeated over the keys: a looping toggle whose cycle ends
\* with a wait, a one-shot with a repeat block, a looping hold, a looping
\* toggle whose last action has no wait (cycle wait 0), and a one-shot with
\* a wait action of 0 ms between two presses.
ExecutorConfig(k) ==
    CASE k % 6 = 0 -> [type |-> "toggle", loop |-> TRUE,
                       actions |-> <<Press(0), Wait(500)>>]
      [] k % 6 = 3 -> [type |-> "toggle", loop |-> TRUE,
                       actions |-> <<Press(0), Press(0)>>]
      [] k % 6 = 4 -> [type |-> "once", loop |-> FALSE,
                       actions |-> <<Press(0), Wait(0), Press(500)>>]
      [] k % 3 = 1 -> [type |-> "once", loop |-> FALSE,
                       actions |-> <<Repeat(2, <<Press(0)>>), Press(500)>>]
      [] OTHER     -> [type |-> "hold", loop |-> TRUE,
                       actions |-> <<Press(500), Press(0)>>]

\* Minimum wait after the last action of a looping macro.
LOOP_MIN_WAIT == 1000

\* MacroExecutor.MAX_QUEUE_SIZE
EXECUTOR_MAX_QUEUE_SIZE == 50

\* MacroState.__init__
LegacyState_init ==
    [current_index |-> 0, is_active |-> FALSE, is_executing |-> FALSE,
     is_key_held |-> FALSE, wait_until |-> None, repeat_stack |-> <<>>,
     repeat_just_finished |-> FALSE]

\* MacroState.start
LegacyState_start(s) ==
    [s EXCEPT !.is_active = TRUE, !.is_executing = TRUE, !.current_index = 0,
              !.wait_until = None, !.repeat_stack = <<>>,
              !.repeat_just_finished = FALSE]

\* MacroState.stop (current_index is left as it is)
LegacyState_stop(s) ==
    [s EXCEPT !.is_active = FALSE, !.is_executing = FALSE, !.wait_until = None,
              !.repeat_stack = <<>>, !.repeat_just_finished = FALSE]

\* MacroState.get_current_action: the state it leaves and the action it returns.
LegacyState_get_current_action(k, s) ==
    LET acts == ExecutorConfig(k).actions
        n    == Len(s.repeat_stack)
    IN  IF ~s.is_active THEN [s |-> s, action |-> NoAction]
        ELSE IF n > 0 THEN
            LET ctx == s.repeat_stack[n]
                c1  == ctx.current_count + 1
            IN  IF ctx.current_index < Len(ctx.actions)
                THEN [s |-> s, action |-> ctx.actions[ctx.current_index + 1]]
                ELSE IF c1 < ctx.max_count
                THEN [s |-> [s EXCEPT !.repeat_stack[n] =
                                [ctx EXCEPT !.current_count = c1, !.current_index = 0]],
                      action |-> ctx.actions[1]]
                ELSE [s |-> [s EXCEPT !.repeat_stack = SubSeq(s.repeat_stack, 1, n - 1),
                                      !.repeat_just_finished = TRUE],
                      action |-> acts[s.current_index + 1]]
        ELSE IF s.current_index < Len(acts)
        THEN [s |-> s, action |-> acts[s.current_index + 1]]
        ELSE IF ExecutorConfig(k).loop
        THEN [s |-> [s EXCEPT !.current_index = 0], action |-> acts[1]]
        ELSE [s |-> LegacyState_stop(s), action |-> NoAction]

\* MacroState.advance
LegacyState_advance(s) ==
    LET n == Len(s.repeat_stack)
    IN  IF n > 0
        THEN [s EXCEPT !.repeat_stack[n].current_index = @ + 1]
        ELSE [s EXCEPT !.current_index = @ + 1]

\* MacroState.enter_repeat
LegacyState_enter_repeat(s, actions, count) ==
    [s EXCEPT !.repeat_stack = Append(@,
        [actions |-> actions, max_count |-> count, current_count |-> 0,
         current_index |-> 0])]

\* MacroState.is_last_action
LegacyState_is_last_action(k, s) ==
    LET acts == ExecutorConfig(k).actions
        n    == Len(s.repeat_stack)
    IN  IF n > 0
        THEN LET ctx == s.repeat_stack[n]
             IN  /\ ctx.current_index = Len(ctx.actions) - 1
                 /\ ctx.current_count = ctx.max_count - 1
                 /\ n = 1
                 /\ s.current_index = Len(acts) - 1
        ELSE s.current_index = Len(acts) - 1

(***************************************************************************)
(* MacroExecutor.  An executor value e is the record of its fields:        *)
(* macro_states, currently_executing, execution_queue, and out: the keys   *)
(* on whose behalf _execute_action ran during the current call, each with  *)
(* what currently_executing and execution_queue were at that moment.       *)
(***************************************************************************)

\* MacroExecutor.__init__
MacroExecutor_init ==
    [macro_states |-> [k \in Keys |-> LegacyState_init],
     currently_executing |-> None,
     execution_queue |-> <<>>,
     out |-> <<>>]

\* The list comprehension [kid for kid in execution_queue if kid != key_id]
Without(q, k) == SelectSeq(q, LAMBDA x : x # k)

\* A _try_start_macro that puts the key at the head of the queue.
MacroExecutor_try_start_macro_at_head(e, k) ==
    IF e.currently_executing = None
    THEN [e EXCEPT !.currently_executing = k,
                   !.macro_states[k] = LegacyState_start(@)]
    ELSE IF Len(e.execution_queue) >= EXECUTOR_MAX_QUEUE_SIZE THEN e
    ELSE IF k \notin Range(e.execution_queue)
    THEN [e EXCEPT !.macro_states[k].is_active = TRUE,
                   !.execution_queue = <<k>> \o @]
    ELSE e

\* A _try_start_macro that queues the key without looking whether it is
\* queued already.
MacroExecutor_try_start_macro_again(e, k) ==
    IF e.currently_executing = None
    THEN [e EXCEPT !.currently_executing = k,
                   !.macro_states[k] = LegacyState_start(@)]
    ELSE IF Len(e.execution_queue) >= EXECUTOR_MAX_QUEUE_SIZE THEN e
    ELSE [e EXCEPT !.macro_states[k].is_active = TRUE,
                   !.execution_queue = Append(@, k)]

\* MacroExecutor._try_start_macro
MacroExecutor_try_start_macro(e, k) ==
    IF e.currently_executing = None
    THEN [e EXCEPT !.currently_executing = k,
                   !.macro_states[k] = LegacyState_start(@)]
    ELSE IF Len(e.execution_queue) >= EXECUTOR_MAX_QUEUE_SIZE THEN e
    ELSE IF k \notin Range(e.execution_queue)
    THEN [e EXCEPT !.macro_states[k].is_active = TRUE,
                   !.execution_queue = Append(@, k)]
    ELSE e

\* MacroExecutor._release_execution_slot
MacroExecutor_release_execution_slot(e) ==
    [e EXCEPT !.currently_executing = None]

\* A cancel that stops the macro and leaves the slot with it.
MacroExecutor_cancel_keeping_slot(e, k) ==
    [e EXCEPT !.macro_states[k] = LegacyState_stop(@),
              !.execution_queue = Without(@, k)]

\* A cancel that stops the macro and leaves its key in the queue.
MacroExecutor_cancel_keeping_queue(e, k) ==
    LET e1 == [e EXCEPT !.macro_states[k] = LegacyState_stop(@)]
    IN  IF e1.currently_executing = k
        THEN MacroExecutor_release_execution_slot(e1)
        ELSE e1

\* The cancel that handle_key_press (toggle) and handle_key_release (hold) share
\* line for line: stop, drop from the queue, release the slot if it was held.
MacroExecutor_cancel(e, k) ==
    LET e1 == [e EXCEPT !.macro_states[k] = LegacyState_stop(@),
                        !.execution_queue = Without(@, k)]
    IN  IF e1.currently_executing = k
        THEN MacroExecutor_release_execution_slot(e1)
        ELSE e1

\* MacroExecutor.handle_key_press
MacroExecutor_handle_key_press(e, k) ==
    LET type == ExecutorConfig(k).type
    IN  IF type = "once" THEN MacroExecutor_try_start_macro(e, k)
        ELSE IF type = "hold"
        THEN LET e1 == [e EXCEPT !.macro_states[k].is_key_held = TRUE]
             IN  IF ~e.macro_states[k].is_active
                 THEN MacroExecutor_try_start_macro(e1, k)
                 ELSE e1
        ELSE IF type = "toggle"
        THEN IF e.macro_states[k].is_active
             THEN MacroExecutor_cancel(e, k)
             ELSE MacroExecutor_try_start_macro(e, k)
        ELSE e

\* MacroExecutor.handle_key_release
MacroExecutor_handle_key_release(e, k) ==
    IF ExecutorConfig(k).type = "hold"
    THEN LET e1 == [e EXCEPT !.macro_states[k].is_key_held = FALSE]
         IN  IF e.macro_states[k].is_active
             THEN MacroExecutor_cancel(e1, k)
             ELSE e1
    ELSE e

\* The transition to SLEEP that _execute_action and _handle_action_wait make
\* after the last action of a looping macro.
MacroExecutor_sleep(e, k, ms) ==
    MacroExecutor_release_execution_slot(
        [e EXCEPT !.macro_states[k].wait_until = ms,
                  !.macro_states[k].is_executing = FALSE,
                  !.macro_states[k].current_index = 0])

\* MacroExecutor._handle_action_wait
MacroExecutor_handle_action_wait(e, k, action, is_last) ==
    LET loop    == ExecutorConfig(k).loop
        wait_ms == IF is_last /\ loop THEN Max(action.wait, LOOP_MIN_WAIT)
                   ELSE action.wait
    IN  IF wait_ms > 0
        THEN IF is_last /\ loop
             THEN MacroExecutor_sleep(e, k, wait_ms)
             ELSE [e EXCEPT !.macro_states[k].wait_until = wait_ms]
        ELSE IF is_last
        THEN IF loop
             THEN MacroExecutor_sleep(e, k, LOOP_MIN_WAIT)
             ELSE MacroExecutor_release_execution_slot(
                      [e EXCEPT !.macro_states[k] = LegacyState_stop(@)])
        ELSE [e EXCEPT !.macro_states[k] = LegacyState_advance(@)]

\* MacroExecutor._execute_action
MacroExecutor_execute_action(e0, k, action) ==
    LET s       == e0.macro_states[k]
        is_last == LegacyState_is_last_action(k, s)
        loop    == ExecutorConfig(k).loop
        e       == [e0 EXCEPT !.out = Append(@,
                       [key |-> k, slot |-> e0.currently_executing,
                        queue |-> e0.execution_queue])]
    IN  IF action.type = "press"
        THEN MacroExecutor_handle_action_wait(e, k, action, is_last)
        ELSE IF action.type = "wait"
        THEN IF is_last /\ loop
             THEN MacroExecutor_sleep(e, k, Max(action.ms, LOOP_MIN_WAIT))
             ELSE [e EXCEPT !.macro_states[k].wait_until = action.ms]
        ELSE IF action.type = "repeat"
        THEN IF s.repeat_just_finished
             THEN MacroExecutor_handle_action_wait(
                      [e EXCEPT !.macro_states[k].repeat_just_finished = FALSE],
                      k, action, is_last)
             ELSE [e EXCEPT !.macro_states[k] =
                      LegacyState_enter_repeat(@, action.actions, action.count)]
        ELSE [e EXCEPT !.macro_states[k] = LegacyState_advance(@)]

\* A step 1 that sends every woken macro to the queue, the slot free or not.
RECURSIVE MacroExecutor_update_wake_to_queue(_, _)
MacroExecutor_update_wake_to_queue(e, k) ==
    IF k \notin DOMAIN e.macro_states THEN e
    ELSE LET s == e.macro_states[k]
             e1 == IF s.is_active /\ ~s.is_executing
                      /\ s.wait_until # None /\ Reached(s.wait_until)
                   THEN IF k \notin Range(e.execution_queue)
                        THEN [e EXCEPT !.macro_states[k].wait_until = None,
                                       !.execution_queue = Append(@, k)]
                        ELSE [e EXCEPT !.macro_states[k].wait_until = None]
                   ELSE e
         IN  MacroExecutor_update_wake_to_queue(e1, k + 1)

\* MacroExecutor.update, step 1, for the states from key k on (dict order).
RECURSIVE MacroExecutor_update_wake(_, _)
MacroExecutor_update_wake(e, k) ==
    IF k \notin DOMAIN e.macro_states THEN e
    ELSE LET s == e.macro_states[k]
             e1 == IF s.is_active /\ ~s.is_executing
                      /\ s.wait_until # None /\ Reached(s.wait_until)
                   THEN IF e.currently_executing = None
                        THEN [e EXCEPT !.currently_executing = k,
                                 !.macro_states[k] =
                                    [s EXCEPT !.wait_until = None,
                                              !.is_executing = TRUE,
                                              !.current_index = 0,
                                              !.repeat_stack = <<>>,
                                              !.repeat_just_finished = FALSE]]
                        ELSE IF k \notin Range(e.execution_queue)
                        THEN [e EXCEPT !.macro_states[k].wait_until = None,
                                       !.execution_queue = Append(@, k)]
                        ELSE [e EXCEPT !.macro_states[k].wait_until = None]
                   ELSE e
         IN  MacroExecutor_update_wake(e1, k + 1)

\* MacroExecutor.update, step 2
MacroExecutor_update_queue(e) ==
    IF e.currently_executing = None /\ e.execution_queue # <<>>
    THEN LET k == Head(e.execution_queue)
         IN  [e EXCEPT !.execution_queue = Tail(@),
                       !.currently_executing = k,
                       !.macro_states[k] =
                          [@ EXCEPT !.is_executing = TRUE, !.is_active = TRUE,
                                    !.current_index = 0, !.wait_until = None,
                                    !.repeat_stack = <<>>,
                                    !.repeat_just_finished = FALSE]]
    ELSE e

\* MacroExecutor.update, step 3
MacroExecutor_update_execute(e) ==
    LET k == e.currently_executing
    IN  IF k = None THEN e
        ELSE LET s == e.macro_states[k]
             IN  IF ~s.is_executing THEN e
                 ELSE IF s.wait_until # None
                 THEN IF Reached(s.wait_until)
                      THEN [e EXCEPT !.macro_states[k] =
                               LegacyState_advance([s EXCEPT !.wait_until = None])]
                      ELSE e
                 ELSE LET r  == LegacyState_get_current_action(k, s)
                          e1 == [e EXCEPT !.macro_states[k] = r.s]
                      IN  IF r.action = NoAction
                          THEN IF ~ExecutorConfig(k).loop
                               THEN MacroExecutor_release_execution_slot(
                                        [e1 EXCEPT !.macro_states[k] = LegacyState_stop(@)])
                               ELSE e1
                          ELSE MacroExecutor_execute_action(e1, k, r.action)

\* MacroExecutor.update
MacroExecutor_update(e) ==
    MacroExecutor_update_execute(
        MacroExecutor_update_queue(
            MacroExecutor_update_wake([e EXCEPT !.out = <<>>], 0)))

\* MacroExecutor.stop_all
MacroExecutor_stop_all(e) ==
    [e EXCEPT !.macro_states = [k \in DOMAIN e.macro_states |->
                  IF e.macro_states[k].is_active
                  THEN LegacyState_stop(e.macro_states[k])
                  ELSE e.macro_states[k]],
              !.currently_executing = None,
              !.execution_queue = <<>>,
              !.out = <<>>]

(***************************************************************************)
(* Part II.  src/macro_state.py: MacroState (v2).  A state s is the record *)
(* of the object's fields; type, wait_time and actions are the ones        *)
(* __init__ copies from the macro's configuration.                         *)
(***************************************************************************)

\* MacroState.__init__
MacroState_init(config) ==
    [type |-> config.type, actions |-> config.actions, wait_time |-> config.wait,
     is_active |-> FALSE, current_action_index |-> 0,
     action_wait_until |-> None, cycle_wait_until |-> None,
     is_key_held |-> FALSE, repeat_stack |-> <<>>]

\* MacroState.start
MacroState_start(s) ==
    [s EXCEPT !.is_active = TRUE, !.current_action_index = 0,
              !.action_wait_until = None, !.cycle_wait_until = None,
              !.repeat_stack = <<>>,
              !.is_key_held = IF s.type = "hold" THEN TRUE ELSE @]

\* MacroState.stop
MacroState_stop(s) ==
    [s EXCEPT !.is_active = FALSE, !.current_action_index = 0,
              !.action_wait_until = None, !.cycle_wait_until = None,
              !.is_key_held = FALSE, !.repeat_stack = <<>>]

\* MacroState.get_current_action: the state it leaves and the action it returns.
RECURSIVE MacroState_get_current_action(_)
MacroState_get_current_action(s) ==
    LET n == Len(s.repeat_stack)
    IN  IF ~s.is_active THEN [s |-> s, action |-> NoAction]
        ELSE IF n > 0 THEN
            LET ctx == s.repeat_stack[n]
                c1  == ctx.current_count + 1
            IN  IF ctx.current_index < Len(ctx.actions)
                THEN [s |-> s, action |-> ctx.actions[ctx.current_index + 1]]
                ELSE IF c1 < ctx.max_count
                THEN [s |-> [s EXCEPT !.repeat_stack[n] =
                                [ctx EXCEPT !.current_count = c1, !.current_index = 0]],
                      action |-> IF ctx.actions = <<>> THEN IndexError
                                 ELSE ctx.actions[1]]
                ELSE MacroState_get_current_action(
                         [s EXCEPT !.repeat_stack = SubSeq(s.repeat_stack, 1, n - 1),
                                   !.current_action_index = @ + 1])
        ELSE IF s.current_action_index < Len(s.actions)
        THEN [s |-> s, action |-> s.actions[s.current_action_index + 1]]
        ELSE [s |-> s, action |-> NoAction]

\* MacroState.advance_action
MacroState_advance_action(s) ==
    LET n == Len(s.repeat_stack)
    IN  IF n > 0
        THEN [s EXCEPT !.repeat_stack[n].current_index = @ + 1]
        ELSE [s EXCEPT !.current_action_index = @ + 1]

\* MacroState.enter_repeat
MacroState_enter_repeat(s, actions, count) ==
    [s EXCEPT !.repeat_stack = Append(@,
        [actions |-> actions, current_index |-> 0, current_count |-> 0,
         max_count |-> count])]

\* MacroState.is_waiting_between_actions
MacroState_is_waiting_between_actions(s) ==
    s.is_active /\ s.action_wait_until # None

\* MacroState.is_sleeping
MacroState_is_sleeping(s) == s.is_active /\ s.cycle_wait_until # None

\* MacroState.is_ready_to_execute
MacroState_is_ready_to_execute(s) ==
    s.is_active /\ s.action_wait_until = None /\ s.cycle_wait_until = None

\* MacroState.get_state_name
MacroState_get_state_name(s) ==
    IF ~s.is_active THEN "OFF"
    ELSE IF s.cycle_wait_until # None THEN "SLEEPING"
    ELSE IF s.action_wait_until # None THEN "WAIT"
    ELSE "ACTIVE"

\* MacroState.set_action_wait
MacroState_set_action_wait(s, wait_ms) ==
    IF wait_ms > 0
    THEN [s EXCEPT !.action_wait_until = wait_ms]
    ELSE [s EXCEPT !.action_wait_until = None]

\* MacroState.set_cycle_wait
MacroState_set_cycle_wait(s) ==
    IF s.wait_time > 0
    THEN [s EXCEPT !.cycle_wait_until = s.wait_time]
    ELSE [s EXCEPT !.cycle_wait_until = None]

\* MacroState.check_and_clear_action_timer: the state it leaves and its result.
MacroState_check_and_clear_action_timer(s) ==
    IF s.action_wait_until # None /\ Reached(s.action_wait_until)
    THEN [s |-> [s EXCEPT !.action_wait_until = None], expired |-> TRUE]
    ELSE [s |-> s, expired |-> FALSE]

\* MacroState.check_and_clear_cycle_timer: the state it leaves and its result.
MacroState_check_and_clear_cycle_timer(s) ==
    IF s.cycle_wait_until # None /\ Reached(s.cycle_wait_until)
    THEN [s |-> [s EXCEPT !.cycle_wait_until = None], expired |-> TRUE]
    ELSE [s |-> s, expired |-> FALSE]

\* An interrupt that arms the cycle timer and keeps the action timer.
MacroState_interrupt_keeping_action_timer(s) ==
    IF s.type # "toggle" THEN s
    ELSE [MacroState_set_cycle_wait(s) EXCEPT !.current_action_index = 0,
                                               !.repeat_stack = <<>>]

\* MacroState.interrupt_to_sleeping
MacroState_interrupt_to_sleeping(s) ==
    IF s.type # "toggle" THEN s
    ELSE [MacroState_set_cycle_wait(s) EXCEPT !.current_action_index = 0,
                                               !.action_wait_until = None,
                                               !.repeat_stack = <<>>]

(***************************************************************************)
(* src/queue_manager.py: QueueManager.  A manager qm is [slot, queue].     *)
(***************************************************************************)

\* QueueManager.MAX_QUEUE_SIZE
MAX_QUEUE_SIZE == 1000

\* QueueManager.__init__
QueueManager_init == [slot |-> None, queue |-> <<>>]

\* QueueManager.is_slot_free
QueueManager_is_slot_free(qm) == qm.slot = None

\* QueueManager.get_slot
QueueManager_get_slot(qm) == qm.slot

\* QueueManager.set_slot
QueueManager_set_slot(qm, key_id) == [qm EXCEPT !.slot = key_id]

\* QueueManager.free_slot
QueueManager_free_slot(qm) == QueueManager_set_slot(qm, None)

\* A try_add_to_queue without the membership test.
QueueManager_try_add_unchecked(qm, key_id) ==
    IF Len(qm.queue) >= MAX_QUEUE_SIZE THEN [qm |-> qm, ok |-> FALSE]
    ELSE [qm |-> [qm EXCEPT !.queue = Append(@, key_id)], ok |-> TRUE]

\* A try_add_to_queue that moves an id it already holds to the tail.
QueueManager_try_add_move_to_tail(qm, key_id) ==
    IF key_id \in Range(qm.queue)
    THEN [qm |-> [qm EXCEPT !.queue =
                     Append(SelectSeq(@, LAMBDA x : x # key_id), key_id)],
          ok |-> TRUE]
    ELSE IF Len(qm.queue) >= MAX_QUEUE_SIZE THEN [qm |-> qm, ok |-> FALSE]
    ELSE [qm |-> [qm EXCEPT !.queue = Append(@, key_id)], ok |-> TRUE]

\* A try_add_to_queue that tests the overflow before the duplicate.
QueueManager_try_add_overflow_first(qm, key_id) ==
    IF Len(qm.queue) >= MAX_QUEUE_SIZE THEN [qm |-> qm, ok |-> FALSE]
    ELSE IF key_id \in Range(qm.queue) THEN [qm |-> qm, ok |-> TRUE]
    ELSE [qm |-> [qm EXCEPT !.queue = Append(@, key_id)], ok |-> TRUE]

\* QueueManager.try_add_to_queue: the manager it leaves and its result.
QueueManager_try_add_to_queue(qm, key_id) ==
    IF key_id \in Range(qm.queue) THEN [qm |-> qm, ok |-> TRUE]
    ELSE IF Len(qm.queue) >= MAX_QUEUE_SIZE THEN [qm |-> qm, ok |-> FALSE]
    ELSE [qm |-> [qm EXCEPT !.queue = Append(@, key_id)], ok |-> TRUE]

\* list.remove(x): drops the first occurrence of x.
ListRemove(q, x) ==
    LET at == {i \in DOMAIN q : q[i] = x}
    IN  IF at = {} THEN q
        ELSE LET first == CHOOSE i \in at : \A j \in at : i <= j
             IN  SubSeq(q, 1, first - 1) \o SubSeq(q, first + 1, Len(q))

\* A remove_from_queue that drops the head of the queue, whatever id is asked.
QueueManager_remove_head(qm, key_id) ==
    IF key_id \in Range(qm.queue)
    THEN [qm |-> [qm EXCEPT !.queue = Tail(@)], ok |-> TRUE]
    ELSE [qm |-> qm, ok |-> FALSE]

\* QueueManager.remove_from_queue: the manager it leaves and its result.
QueueManager_remove_from_queue(qm, key_id) ==
    IF key_id \in Range(qm.queue)
    THEN [qm |-> [qm EXCEPT !.queue = ListRemove(@, key_id)], ok |-> TRUE]
    ELSE [qm |-> qm, ok |-> FALSE]

\* QueueManager.is_in_queue
QueueManager_is_in_queue(qm, key_id) == key_id \in Range(qm.queue)

\* QueueManager.get_queue_size
QueueManager_get_queue_size(qm) == Len(qm.queue)

\* pop_next_from_queue taking the newest entry instead of the oldest.
QueueManager_pop_newest(qm) ==
    IF qm.queue # <<>>
    THEN [qm |-> [qm EXCEPT !.queue = SubSeq(@, 1, Len(@) - 1)],
          key |-> qm.queue[Len(qm.queue)]]
    ELSE [qm |-> qm, key |-> None]

\* QueueManager.pop_next_from_queue: the manager it leaves and the key it returns.
QueueManager_pop_next_from_queue(qm) ==
    IF qm.queue # <<>>
    THEN [qm |-> [qm EXCEPT !.queue = Tail(@)], key |-> Head(qm.queue)]
    ELSE [qm |-> qm, key |-> None]

\* QueueManager.clear_queue
QueueManager_clear_queue(qm) == [qm EXCEPT !.queue = <<>>]

\* A clear_all that frees the slot and leaves the queue.
QueueManager_clear_slot_only(qm) == [qm EXCEPT !.slot = None]

\* A clear_all that empties the queue and leaves the slot.
QueueManager_clear_queue_only(qm) == [qm EXCEPT !.queue = <<>>]

\* QueueManager.clear_all
QueueManager_clear_all(qm) == [qm EXCEPT !.slot = None, !.queue = <<>>]

(***************************************************************************)
(* src/action_executor.py: ActionExecutor.execute.  It returns the wait    *)
(* (ms) and, for a repeat, enters the block on the macro state; output is  *)
(* whether a device (keyboard, mouse) was driven.                          *)
(***************************************************************************)
ActionExecutor_execute(action, s) ==
    IF action.type = "press"
    THEN [s |-> s, wait_ms |-> action.wait, output |-> TRUE]
    ELSE IF action.type = "wait"
    THEN [s |-> s, wait_ms |-> action.ms, output |-> FALSE]
    ELSE IF action.type = "repeat"
    THEN [s |-> MacroState_enter_repeat(s, action.actions, action.count),
          wait_ms |-> 0, output |-> FALSE]
    ELSE [s |-> s, wait_ms |-> action.wait, output |-> FALSE]

(***************************************************************************)
(* MacroEngine: the engine that src/code.py imports and calls.             *)
(* src/macro_engine.py does not define it (it holds the MacroExecutor of   *)
(* Part I), so the engine is modelled from the specification, sections 4.4 *)
(* and 7, on top of MacroState, QueueManager and ActionExecutor above.     *)
(* An engine value g is [macro_states, queue_manager,                      *)
(* emergency_blink_left, out]: out lists the keys on whose behalf          *)
(* ActionExecutor.execute ran during the current call, each with the slot  *)
(* and the queue of that moment, the state name the macro had and the      *)
(* action that was handed to execute.                                      *)
(***************************************************************************)

\* The profiles on the device, by index: the configuration of each key.
\* Profile 0: a toggle with a cycle wait, a press with a repeat block, a hold.
\* Profile 1: a toggle with cycle wait 0, a toggle with a cycle wait, a press.
ProfileConfig(p, k) ==
    IF p = 0
    THEN CASE k % 3 = 0 -> [type |-> "toggle", wait |-> 500,
                            actions |-> <<Press(0), Wait(500)>>]
           [] k % 3 = 1 -> [type |-> "press", wait |-> 0,
                            actions |-> <<Repeat(2, <<Press(0)>>), Press(500)>>]
           [] OTHER     -> [type |-> "hold", wait |-> 0,
                            actions |-> <<Press(500), Press(0)>>]
    ELSE CASE k % 3 = 0 -> [type |-> "toggle", wait |-> 0,
                            actions |-> <<Press(500)>>]
           [] k % 3 = 1 -> [type |-> "toggle", wait |-> 1000,
                            actions |-> <<Press(0), Press(0)>>]
           [] OTHER     -> [type |-> "press", wait |-> 0,
                            actions |-> <<Press(0), Wait(500)>>]

Profiles == {0, 1}

\* Error blink after a queue overflow or a caught exception (code.py: 3.0 s).
ERROR_BLINK_MS == 3000

\* Error blink after the encoder button's emergency stop (code.py: 1.5 s).
EMERGENCY_BLINK_MS == 1500

\* MacroEngine.__init__ followed by load_profile
MacroEngine_init(p) ==
    [macro_states |-> [k \in Keys |-> MacroState_init(ProfileConfig(p, k))],
     queue_manager |-> QueueManager_init,
     emergency_blink_left |-> 0,
     out |-> <<>>]

\* MacroEngine.load_profile
MacroEngine_load_profile(g, p) ==
    [g EXCEPT !.macro_states = [k \in Keys |-> MacroState_init(ProfileConfig(p, k))]]

\* MacroEngine.start_error_blink
MacroEngine_start_error_blink(g, duration) ==
    [g EXCEPT !.emergency_blink_left = duration]

\* MacroEngine.is_emergency_blinking
MacroEngine_is_emergency_blinking(g) == g.emergency_blink_left > 0

\* MacroEngine.emergency_stop_all
MacroEngine_emergency_stop_all(g) ==
    [g EXCEPT !.macro_states = [k \in Keys |-> MacroState_stop(g.macro_states[k])],
              !.queue_manager = QueueManager_clear_all(@)]

\* Queue overflow: emergency stop and error blink.
MacroEngine_overflow(g) ==
    MacroEngine_start_error_blink(MacroEngine_emergency_stop_all(g), ERROR_BLINK_MS)

\* MacroEngine.process_queue (phase 2)
RECURSIVE MacroEngine_process_queue(_)
MacroEngine_process_queue(g) ==
    IF ~QueueManager_is_slot_free(g.queue_manager) THEN g
    ELSE LET r == QueueManager_pop_next_from_queue(g.queue_manager)
             g1 == [g EXCEPT !.queue_manager = r.qm]
         IN  IF r.key = None THEN g
             ELSE IF ~g.macro_states[r.key].is_active
             THEN MacroEngine_process_queue(g1)
             ELSE [g1 EXCEPT !.queue_manager = QueueManager_set_slot(@, r.key),
                             !.macro_states[r.key] = MacroState_start(@)]

\* Slot free: take it and start; otherwise enqueue, overflow being fatal.
MacroEngine_start_or_enqueue(g, k) ==
    IF QueueManager_is_slot_free(g.queue_manager)
    THEN [g EXCEPT !.queue_manager = QueueManager_set_slot(@, k),
                   !.macro_states[k] = MacroState_start(@)]
    ELSE LET r == QueueManager_try_add_to_queue(g.queue_manager, k)
         IN  IF r.ok THEN [g EXCEPT !.queue_manager = r.qm]
             ELSE MacroEngine_overflow(g)

\* Release the slot and refill it from the queue.
MacroEngine_release_slot(g) ==
    MacroEngine_process_queue(
        [g EXCEPT !.queue_manager = QueueManager_free_slot(@)])

\* handle_key_press for a press or hold macro: preempt the slot holder.
MacroEngine_press_priority(g, k) ==
    LET h  == QueueManager_get_slot(g.queue_manager)
        g1 == IF h = None THEN g
              ELSE IF g.macro_states[h].type = "toggle"
              THEN [g EXCEPT !.macro_states[h] = MacroState_interrupt_to_sleeping(@)]
              ELSE [g EXCEPT !.macro_states[h] = MacroState_stop(@)]
    IN  [g1 EXCEPT !.queue_manager = QueueManager_set_slot(@, k),
                   !.macro_states[k] = MacroState_start(@)]

\* handle_key_press for a toggle: cancel when active, activate when not.
MacroEngine_press_toggle(g, k) ==
    IF g.macro_states[k].is_active
    THEN LET g1 == [g EXCEPT !.macro_states[k] = MacroState_stop(@),
                             !.queue_manager =
                                 QueueManager_remove_from_queue(@, k).qm]
         IN  IF QueueManager_get_slot(g.queue_manager) = k
             THEN MacroEngine_release_slot(g1)
             ELSE g1
    ELSE MacroEngine_start_or_enqueue(
             [g EXCEPT !.macro_states[k].is_active = TRUE], k)

\* MacroEngine.handle_key_press
MacroEngine_handle_key_press(g, k) ==
    IF g.macro_states[k].type = "toggle"
    THEN MacroEngine_press_toggle(g, k)
    ELSE MacroEngine_press_priority(g, k)

\* MacroEngine.handle_key_release
MacroEngine_handle_key_release(g, k) ==
    IF g.macro_states[k].type = "hold"
    THEN [g EXCEPT !.macro_states[k].is_key_held = FALSE]
    ELSE g

\* MacroEngine.check_sleeping_macros (phase 1), for the states from key k on.
RECURSIVE MacroEngine_check_sleeping_from(_, _)
MacroEngine_check_sleeping_from(g, k) ==
    IF k >= NumKeys THEN g
    ELSE LET r  == MacroState_check_and_clear_cycle_timer(g.macro_states[k])
             g1 == IF r.expired
                   THEN MacroEngine_start_or_enqueue(
                            [g EXCEPT !.macro_states[k] = r.s], k)
                   ELSE g
         IN  MacroEngine_check_sleeping_from(g1, k + 1)

\* MacroEngine.check_sleeping_macros
MacroEngine_check_sleeping_macros(g) == MacroEngine_check_sleeping_from(g, 0)

\* Completion policy: the action stream of slot holder k is exhausted.
MacroEngine_complete(g, k) ==
    LET s == g.macro_states[k]
    IN  IF s.type = "toggle"
        THEN LET s1 == [MacroState_set_cycle_wait(s) EXCEPT
                           !.current_action_index = 0, !.repeat_stack = <<>>]
                 g1 == [g EXCEPT !.macro_states[k] = s1,
                                 !.queue_manager = QueueManager_free_slot(@)]
                 r  == QueueManager_try_add_to_queue(g1.queue_manager, k)
             IN  IF MacroState_is_sleeping(s1) THEN MacroEngine_process_queue(g1)
                 ELSE IF r.ok
                 THEN MacroEngine_process_queue([g1 EXCEPT !.queue_manager = r.qm])
                 ELSE MacroEngine_overflow(g1)
        ELSE IF s.type = "hold" /\ s.is_key_held
        THEN [g EXCEPT !.macro_states[k] = MacroState_start(@)]
        ELSE MacroEngine_release_slot(
                 [g EXCEPT !.macro_states[k] = MacroState_stop(@)])

\* MacroEngine.execute_active_macro (phase 3).  An exception raised by
\* get_current_action leaves the call and is caught by the main loop of
\* code.py (252-261): emergency stop and error blink.
MacroEngine_execute_active_macro(g) ==
    LET k == QueueManager_get_slot(g.queue_manager)
    IN  IF k = None THEN g
        ELSE LET t  == MacroState_check_and_clear_action_timer(g.macro_states[k])
                 g1 == [g EXCEPT !.macro_states[k] = t.s]
             IN  IF MacroState_is_waiting_between_actions(t.s) THEN g1
                 ELSE LET c  == MacroState_get_current_action(t.s)
                          g2 == [g1 EXCEPT !.macro_states[k] = c.s]
                      IN  IF c.action = NoAction THEN MacroEngine_complete(g2, k)
                          ELSE IF c.action = IndexError
                          THEN MacroEngine_start_error_blink(
                                   MacroEngine_emergency_stop_all(g2), ERROR_BLINK_MS)
                          ELSE LET x  == ActionExecutor_execute(c.action, c.s)
                                   s2 == IF c.action.type = "repeat" THEN x.s
                                         ELSE MacroState_advance_action(x.s)
                                   s3 == IF x.wait_ms > 0
                                         THEN MacroState_set_action_wait(s2, x.wait_ms)
                                         ELSE s2
                               IN  [g2 EXCEPT !.macro_states[k] = s3,
                                       !.out = Append(@,
                                          [key |-> k,
                                           slot |-> g2.queue_manager.slot,
                                           queue |-> g2.queue_manager.queue,
                                           state |-> MacroState_get_state_name(c.s),
                                           action |-> c.action])]

VARIABLES
    executor,    \* the MacroExecutor (Part I)
    engine,      \* the MacroEngine (Part II)
    profile,     \* index of the current profile (profile_manager)
    pc,          \* where the main loop of code.py is in its iteration
    key_down,    \* the keys that are physically down (the keypad)
    last,        \* the call that led to this state: [op, key, slot]; slot is
                 \* the slot holder before the call
    manager      \* a QueueManager called directly (SpecQueue)

vars == <<executor, engine, profile, pc, key_down, last, manager>>

Call(op, key, slot) == [op |-> op, key |-> key, slot |-> slot]

\* The keypad reports a press of a key that is up, a release of one that is down.
KeypadPress(k) == k \notin key_down /\ key_down' = key_down \cup {k}

KeypadRelease(k) == k \in key_down /\ key_down' = key_down \ {k}

(***************************************************************************)
(* SpecExecutor: a MacroExecutor driven through its public methods.        *)
(***************************************************************************)
ExecutorInit ==
    /\ executor = MacroExecutor_init
    /\ engine = MacroEngine_init(0)
    /\ profile = 0
    /\ pc = "encoder"
    /\ key_down = {}
    /\ last = Call("init", None, None)
    /\ manager = QueueManager_init

ExecutorKeyPress ==
    \E k \in Keys :
        /\ KeypadPress(k)
        /\ executor' = MacroExecutor_handle_key_press([executor EXCEPT !.out = <<>>], k)
        /\ last' = Call("press", k, executor.currently_executing)
        /\ UNCHANGED <<engine, profile, pc, manager>>

ExecutorKeyRelease ==
    \E k \in Keys :
        /\ KeypadRelease(k)
        /\ executor' = MacroExecutor_handle_key_release([executor EXCEPT !.out = <<>>], k)
        /\ last' = Call("release", k, executor.currently_executing)
        /\ UNCHANGED <<engine, profile, pc, manager>>

ExecutorUpdate ==
    /\ executor' = MacroExecutor_update(executor)
    /\ last' = Call("update", None, executor.currently_executing)
    /\ UNCHANGED <<engine, profile, pc, key_down, manager>>

ExecutorStopAll ==
    /\ executor' = MacroExecutor_stop_all(executor)
    /\ last' = Call("stop_all", None, executor.currently_executing)
    /\ UNCHANGED <<engine, profile, pc, key_down, manager>>

ExecutorTimePasses ==
    /\ executor' = [executor EXCEPT !.macro_states =
                       [k \in Keys |-> [@[k] EXCEPT !.wait_until = Elapse(@)]],
                    !.out = <<>>]
    /\ last' = Call("time", None, executor.currently_executing)
    /\ UNCHANGED <<engine, profile, pc, key_down, manager>>

ExecutorNext ==
    \/ ExecutorKeyPress
    \/ ExecutorKeyRelease
    \/ ExecutorUpdate
    \/ ExecutorStopAll
    \/ ExecutorTimePasses

SpecExecutor == ExecutorInit /\ [][ExecutorNext]_vars

(***************************************************************************)
(* Spec: the main loop of src/code.py driving the MacroEngine.  One        *)
(* iteration goes through pc = encoder, button, keys, sleeping, queue,     *)
(* execute, in this order; an exception anywhere in it is caught, and the  *)
(* loop starts its next iteration.                                         *)
(***************************************************************************)
Init ==
    /\ executor = MacroExecutor_init
    /\ profile \in Profiles
    /\ engine = MacroEngine_init(profile)
    /\ pc = "encoder"
    /\ key_down = {}
    /\ last = Call("init", None, None)
    /\ manager = QueueManager_init

Slot == engine.queue_manager.slot

\* code.py 114-155: the encoder was turned: emergency stop, switch, load.
EncoderRotation ==
    /\ pc = "encoder"
    /\ \E p \in Profiles \ {profile} :
          /\ profile' = p
          /\ engine' = MacroEngine_load_profile(
                           MacroEngine_emergency_stop_all([engine EXCEPT !.out = <<>>]), p)
    /\ pc' = "button"
    /\ last' = Call("load_profile", None, Slot)
    /\ UNCHANGED <<executor, key_down, manager>>

\* code.py 160-176: the encoder button went down: emergency stop and blink.
EncoderButton ==
    /\ pc = "button"
    /\ engine' = MacroEngine_start_error_blink(
                     MacroEngine_emergency_stop_all([engine EXCEPT !.out = <<>>]),
                     EMERGENCY_BLINK_MS)
    /\ pc' = "keys"
    /\ last' = Call("emergency_stop", None, Slot)
    /\ UNCHANGED <<executor, profile, key_down, manager>>

\* code.py 181-190: a key event, pressed.
KeyPress ==
    /\ pc = "keys"
    /\ \E k \in Keys :
          /\ KeypadPress(k)
          /\ engine' = MacroEngine_handle_key_press([engine EXCEPT !.out = <<>>], k)
          /\ last' = Call("press", k, Slot)
    /\ pc' = "sleeping"
    /\ UNCHANGED <<executor, profile, manager>>

\* code.py 181-190: a key event, released.
KeyRelease ==
    /\ pc = "keys"
    /\ \E k \in Keys :
          /\ KeypadRelease(k)
          /\ engine' = MacroEngine_handle_key_release([engine EXCEPT !.out = <<>>], k)
          /\ last' = Call("release", k, Slot)
    /\ pc' = "sleeping"
    /\ UNCHANGED <<executor, profile, manager>>

\* No rotation, no button edge, no key event at this point of the iteration.
NoInput ==
    /\ pc \in {"encoder", "button", "keys"}
    /\ pc' = CASE pc = "encoder" -> "button"
               [] pc = "button"  -> "keys"
               [] OTHER          -> "sleeping"
    /\ UNCHANGED <<executor, engine, profile, key_down, last, manager>>

\* code.py 196
CheckSleepingMacros ==
    /\ pc = "sleeping"
    /\ engine' = MacroEngine_check_sleeping_macros([engine EXCEPT !.out = <<>>])
    /\ pc' = "queue"
    /\ last' = Call("check_sleeping_macros", None, Slot)
    /\ UNCHANGED <<executor, profile, key_down, manager>>

\* code.py 202
ProcessQueue ==
    /\ pc = "queue"
    /\ engine' = MacroEngine_process_queue([engine EXCEPT !.out = <<>>])
    /\ pc' = "execute"
    /\ last' = Call("process_queue", None, Slot)
    /\ UNCHANGED <<executor, profile, key_down, manager>>

\* code.py 208
ExecuteActiveMacro ==
    /\ pc = "execute"
    /\ engine' = MacroEngine_execute_active_macro([engine EXCEPT !.out = <<>>])
    /\ pc' = "encoder"
    /\ last' = Call("execute_active_macro", None, Slot)
    /\ UNCHANGED <<executor, profile, key_down, manager>>

\* code.py 252-261: an exception in the iteration: emergency stop, error blink,
\* and on to the next iteration.
LoopException ==
    /\ engine' = MacroEngine_start_error_blink(
                     MacroEngine_emergency_stop_all([engine EXCEPT !.out = <<>>]),
                     ERROR_BLINK_MS)
    /\ pc' = "encoder"
    /\ last' = Call("exception", None, Slot)
    /\ UNCHANGED <<executor, profile, key_down, manager>>

\* The monotonic clock moves on by TimeStep.
TimePasses ==
    /\ engine' = [engine EXCEPT
                    !.macro_states = [k \in Keys |->
                        [@[k] EXCEPT !.action_wait_until = Elapse(@),
                                     !.cycle_wait_until = Elapse(@)]],
                    !.emergency_blink_left = Max(0, @ - TimeStep)]
    /\ engine' # engine
    /\ last' = Call("time", None, Slot)
    /\ UNCHANGED <<executor, profile, pc, key_down, manager>>

Next ==
    \/ EncoderRotation
    \/ EncoderButton
    \/ KeyPress
    \/ KeyRelease
    \/ NoInput
    \/ CheckSleepingMacros
    \/ ProcessQueue
    \/ ExecuteActiveMacro
    \/ LoopException
    \/ TimePasses

Spec == Init /\ [][Next]_vars

(***************************************************************************)
(* SpecQueue: a QueueManager called directly through its methods, with     *)
(* key ids the callers choose.  It starts empty or one entry short of      *)
(* MAX_QUEUE_SIZE (distinct ids 1 .. MAX_QUEUE_SIZE - 1, as that many      *)
(* try_add_to_queue calls on an empty manager leave it).                   *)
(***************************************************************************)

\* The key ids of the direct calls: one that the long queue holds, two that
\* it does not.
QueueKeys == {1, MAX_QUEUE_SIZE, MAX_QUEUE_SIZE + 1}

\* The queue after try_add_to_queue(1), ..., try_add_to_queue(n) on an empty one.
Filled(n) == [i \in 1 .. n |-> i]

QueueInit ==
    /\ executor = MacroExecutor_init
    /\ engine = MacroEngine_init(0)
    /\ profile = 0
    /\ pc = "encoder"
    /\ key_down = {}
    /\ last = Call("init", None, None)
    /\ manager \in {QueueManager_init,
                    [QueueManager_init EXCEPT !.queue = Filled(MAX_QUEUE_SIZE - 1)]}

QueueSetSlot ==
    \E k \in QueueKeys :
        /\ manager' = QueueManager_set_slot(manager, k)
        /\ UNCHANGED <<executor, engine, profile, pc, key_down, last>>

QueueFreeSlot ==
    /\ manager' = QueueManager_free_slot(manager)
    /\ UNCHANGED <<executor, engine, profile, pc, key_down, last>>

QueueTryAdd ==
    \E k \in QueueKeys :
        /\ manager' = QueueManager_try_add_to_queue(manager, k).qm
        /\ UNCHANGED <<executor, engine, profile, pc, key_down, last>>

QueueRemove ==
    \E k \in QueueKeys :
        /\ manager' = QueueManager_remove_from_queue(manager, k).qm
        /\ UNCHANGED <<executor, engine, profile, pc, key_down, last>>

QueuePop ==
    /\ manager' = QueueManager_pop_next_from_queue(manager).qm
    /\ UNCHANGED <<executor, engine, profile, pc, key_down, last>>

QueueClearQueue ==
    /\ manager' = QueueManager_clear_queue(manager)
    /\ UNCHANGED <<executor, engine, profile, pc, key_down, last>>

QueueClearAll ==
    /\ manager' = QueueManager_clear_all(manager)
    /\ UNCHANGED <<executor, engine, profile, pc, key_down, last>>

QueueNext ==
    \/ QueueSetSlot
    \/ QueueFreeSlot
    \/ QueueTryAdd
    \/ QueueRemove
    \/ QueuePop
    \/ QueueClearQueue
    \/ QueueClearAll

SpecQueue == QueueInit /\ [][QueueNext]_vars

(***************************************************************************)
(* Properties of the MacroExecutor, under SpecExecutor.                    *)
(***************************************************************************)

Holder == executor.currently_executing

Queue == executor.execution_queue

\* An active macro that waits for its timer to wake it (SLEEP).
ExecutorSleeping(k) ==
    LET s == executor.macro_states[k]
    IN  s.is_active /\ ~s.is_executing /\ s.wait_until # None

\* C1: in every reachable state the execution slot is empty or holds the key
\* of a macro whose active flag is true.
C1_SlotEmptyOrActive ==
    Holder # None => executor.macro_states[Holder].is_active

\* C1's case: a macro holds the slot and update has just run one of its actions.
C1_HolderRanAction ==
    /\ last.op = "update"
    /\ Holder # None
    /\ executor.out # <<>>

\* C2: in every reachable state every key in the queue belongs to a macro
\* whose active flag is true.
C2_QueuedAreActive ==
    \A i \in DOMAIN Queue : executor.macro_states[Queue[i]].is_active

\* C4: in every reachable state the slot holder is not in the queue, the slot
\* holder is not sleeping (no cycle deadline), and no queued macro is sleeping.
C4_SlotQueueSleepingDisjoint ==
    /\ Holder # None => Holder \notin Range(Queue)
    /\ Holder # None => ~ExecutorSleeping(Holder)
    /\ \A i \in DOMAIN Queue : ~ExecutorSleeping(Queue[i])

\* C7: every action run during a call was run for the macro that held the slot
\* at that moment, and that macro was not in the queue then; a macro that does
\* not hold the slot (queued, sleeping or off) is not executing, so at most one
\* macro is.
C7_OnlyHolderExecutes ==
    /\ \A i \in DOMAIN executor.out :
          /\ executor.out[i].key = executor.out[i].slot
          /\ executor.out[i].key \notin Range(executor.out[i].queue)
    /\ \A k \in Keys : executor.macro_states[k].is_executing => k = Holder

\* C8: after a press of a key whose macro is of kind once (Press) or hold, that
\* macro holds the slot, is active, is at action 0 and has no deadline set,
\* whatever held the slot before.
C8_PriorityPressTakesSlot ==
    (last.op = "press" /\ ExecutorConfig(last.key).type \in {"once", "hold"}) =>
        LET s == executor.macro_states[last.key]
        IN  /\ Holder = last.key
            /\ s.is_active
            /\ s.current_index = 0
            /\ s.wait_until = None

(***************************************************************************)
(* Properties of the QueueManager, under SpecQueue.                        *)
(***************************************************************************)

\* C6: in every reachable state the queue holds no key id more than once and
\* never more than MAX_QUEUE_SIZE entries.
C6_QueueUniqueAndBounded ==
    /\ Cardinality(Range(manager.queue)) = Len(manager.queue)
    /\ Len(manager.queue) <= MAX_QUEUE_SIZE

\* C6's case: try_add_to_queue has filled the queue to MAX_QUEUE_SIZE, with a
\* key id in it that a further call would repeat.
C6_QueueFull ==
    /\ Len(manager.queue) = MAX_QUEUE_SIZE
    /\ MAX_QUEUE_SIZE \in Range(manager.queue)

(***************************************************************************)
(* Properties of MacroState under the engine and the main loop (Spec).     *)
(***************************************************************************)

EngineQueue == engine.queue_manager.queue

\* The last call was a press of a Press or Hold key while another macro held
\* the slot.
Preempted ==
    /\ last.op = "press"
    /\ engine.macro_states[last.key].type \in {"press", "hold"}
    /\ last.slot # None
    /\ last.slot # last.key

\* C3: in every reachable state every active macro holds the slot, has a
\* cycle-wait deadline set, or is in the queue.
C3_ActiveIsSomewhere ==
    \A k \in Keys :
        engine.macro_states[k].is_active =>
            \/ Slot = k
            \/ engine.macro_states[k].cycle_wait_until # None
            \/ k \in Range(EngineQueue)

\* C5: in every reachable state no MacroState has both its action-wait
\* deadline and its cycle-wait deadline set.
C5_OneDeadlineAtMost ==
    \A k \in Keys :
        ~ (/\ engine.macro_states[k].action_wait_until # None
           /\ engine.macro_states[k].cycle_wait_until # None)

\* C5's case: interrupt_to_sleeping has just armed the cycle timer of a toggle
\* that was preempted while it held the slot.
C5_InterruptedToggleSleeps ==
    /\ Preempted
    /\ engine.macro_states[last.slot].type = "toggle"
    /\ engine.macro_states[last.slot].cycle_wait_until # None

\* C9: right after a Press or Hold key was pressed while another macro held
\* the slot, the previous holder is SLEEPING if it is a toggle (active, at
\* action 0, no action-wait deadline, cycle-wait deadline armed with the
\* configured cycle wait) and OFF if it is a press or hold.
C9_PreemptedHolder ==
    Preempted =>
        LET s == engine.macro_states[last.slot]
        IN  IF s.type = "toggle"
            THEN /\ s.is_active
                 /\ s.current_action_index = 0
                 /\ s.action_wait_until = None
                 /\ s.cycle_wait_until = s.wait_time
            ELSE ~s.is_active

(***************************************************************************)
(* FairSpec: Spec with the scheduling of code.py.  The body of `while      *)
(* True:` runs again and again, so the loop always takes its next step     *)
(* (whatever the inputs are), and the monotonic clock keeps moving while   *)
(* a deadline is ahead.  Nothing is assumed about the inputs.              *)
(***************************************************************************)
LoopStep ==
    \/ EncoderRotation
    \/ EncoderButton
    \/ KeyPress
    \/ KeyRelease
    \/ NoInput
    \/ CheckSleepingMacros
    \/ ProcessQueue
    \/ ExecuteActiveMacro

FairSpec == Init /\ [][Next]_vars /\ WF_vars(LoopStep) /\ WF_vars(TimePasses)

\* Toggle k held the slot and the last call, a Press or Hold press, took it.
InterruptedToggle(k) ==
    /\ Preempted
    /\ last.slot = k
    /\ engine.macro_states[k].type = "toggle"

\* Toggle k holds the slot and is at its first action.
Restarted(k) ==
    /\ Slot = k
    /\ engine.macro_states[k].is_active
    /\ engine.macro_states[k].current_action_index = 0

\* C10: a toggle interrupted by a Press or Hold press, unless it is cancelled
\* (made inactive), eventually holds the slot again at its first action,
\* provided the macros that take the slot complete (the slot is free again and
\* again); ticks keep occurring by FairSpec.  For every cycle wait, 0 included.
C10_InterruptedToggleRestarts ==
    \A k \in Keys :
        []<>(Slot = None) =>
            (InterruptedToggle(k) ~>
                (Restarted(k) \/ ~engine.macro_states[k].is_active))

(***************************************************************************)
(* Properties of single calls of the MacroExecutor, under SpecExecutor.    *)
(* They relate the state before a call to the state after it, so they are  *)
(* properties of steps.                                                    *)
(***************************************************************************)

\* This step is the key event "k pressed" / "k released".
Pressed(k) == k \notin key_down /\ k \in key_down'

Released(k) == k \in key_down /\ k \notin key_down'

\* C11: pressing the key of a toggle that is active (holding the slot, waiting,
\* sleeping or queued) cancels it: afterwards it is off (inactive, no deadline),
\* its key is not in the queue, and it does not hold the slot.
C11_ActiveTogglePressCancels ==
    [][\A k \in Keys :
          (/\ Pressed(k)
           /\ ExecutorConfig(k).type = "toggle"
           /\ executor.macro_states[k].is_active) =>
              /\ ~executor'.macro_states[k].is_active
              /\ executor'.macro_states[k].wait_until = None
              /\ k \notin Range(executor'.execution_queue)
              /\ executor'.currently_executing # k]_vars

\* C11's case: a press has cancelled a toggle that held the slot.
C11_CancelledHolder ==
    /\ last.op = "press"
    /\ ExecutorConfig(last.key).type = "toggle"
    /\ last.slot = last.key
    /\ ~executor.macro_states[last.key].is_active

\* C12: pressing the key of an inactive toggle marks it active; if the slot
\* was free the toggle holds the slot and is started at action 0, otherwise
\* (queue not full) its key is appended at the tail of the queue and the slot
\* holder keeps the slot and its progress.
C12_InactiveTogglePressActivates ==
    [][\A k \in Keys :
          (/\ Pressed(k)
           /\ ExecutorConfig(k).type = "toggle"
           /\ ~executor.macro_states[k].is_active) =>
              /\ executor'.macro_states[k].is_active
              /\ IF Holder = None
                 THEN /\ executor'.currently_executing = k
                      /\ executor'.macro_states[k].is_executing
                      /\ executor'.macro_states[k].current_index = 0
                      /\ executor'.macro_states[k].wait_until = None
                      /\ executor'.execution_queue = Queue
                 ELSE Len(Queue) < EXECUTOR_MAX_QUEUE_SIZE =>
                      /\ executor'.execution_queue = Append(Queue, k)
                      /\ executor'.currently_executing = Holder
                      /\ executor'.macro_states[Holder] = executor.macro_states[Holder]]_vars

\* C12's case: a press has put a toggle behind another key in the queue, the
\* slot being held by a third macro that has made progress.
C12_ToggleQueuedAtTail ==
    /\ last.op = "press"
    /\ ExecutorConfig(last.key).type = "toggle"
    /\ Len(Queue) >= 2
    /\ Queue[Len(Queue)] = last.key
    /\ Holder # None
    /\ executor.macro_states[Holder].current_index > 0

(***************************************************************************)
(* SpecOverflow: a MacroExecutor constructed with more macros than its     *)
(* slot and queue have room for, driven by a main loop that handles at     *)
(* most one key event per iteration and then calls update() (the shape of  *)
(* the loop in src/code.py).  The keys are pressed one after the other,    *)
(* key 0 first, each key once, in a burst that is over before any wait of  *)
(* a macro ends, so no deadline is reached.                                *)
(***************************************************************************)
OverflowKeys == 0 .. (EXECUTOR_MAX_QUEUE_SIZE + 2)

OverflowInit ==
    /\ executor = [MacroExecutor_init EXCEPT
                      !.macro_states = [k \in OverflowKeys |-> LegacyState_init]]
    /\ engine = MacroEngine_init(0)
    /\ profile = 0
    /\ pc = "keys"
    /\ key_down = {}
    /\ last = Call("init", None, None)
    /\ manager = QueueManager_init

OverflowKeyPress ==
    /\ pc = "keys"
    /\ \E k \in OverflowKeys :
          /\ \A j \in OverflowKeys : j < k <=> j \in key_down
          /\ KeypadPress(k)
          /\ executor' = MacroExecutor_handle_key_press([executor EXCEPT !.out = <<>>], k)
          /\ last' = Call("press", k, executor.currently_executing)
    /\ pc' = "update"
    /\ UNCHANGED <<engine, profile, manager>>

OverflowNoEvent ==
    /\ pc = "keys"
    /\ pc' = "update"
    /\ UNCHANGED <<executor, engine, profile, key_down, last, manager>>

OverflowUpdate ==
    /\ pc = "update"
    /\ executor' = MacroExecutor_update(executor)
    /\ last' = Call("update", None, executor.currently_executing)
    /\ pc' = "keys"
    /\ UNCHANGED <<engine, profile, key_down, manager>>

OverflowNext ==
    \/ OverflowKeyPress
    \/ OverflowNoEvent
    \/ OverflowUpdate

SpecOverflow == OverflowInit /\ [][OverflowNext]_vars

C14_StopAllResetsEverything ==
    last.op = "stop_all" =>
        /\ \A k \in Keys :
              /\ ~executor.macro_states[k].is_active
              /\ executor.macro_states[k].wait_until = None
              /\ executor.macro_states[k].repeat_stack = <<>>
              /\ ~executor.macro_states[k].is_key_held
        /\ Holder = None
        /\ Queue = <<>>

\* C15: releasing the key of a Hold macro that is running only records that
\* the key is no longer held: the macro stays active and keeps the slot, and
\* nothing else of its progress changes.
C15_HoldReleaseOnlyClearsFlag ==
    [][\A k \in Keys :
          (/\ Released(k)
           /\ ExecutorConfig(k).type = "hold"
           /\ executor.macro_states[k].is_active
           /\ Holder = k) =>
              /\ ~executor'.macro_states[k].is_key_held
              /\ executor'.macro_states[k].is_active
              /\ executor'.currently_executing = k
              /\ executor'.macro_states[k] =
                    [executor.macro_states[k] EXCEPT !.is_key_held = FALSE]]_vars

\* Macro k holds the slot and the next update() executes the last action of
\* its list (no wait pending, no repeat open).
AtLastAction(k) ==
    /\ Holder = k
    /\ executor.macro_states[k].is_active
    /\ executor.macro_states[k].is_executing
    /\ executor.macro_states[k].wait_until = None
    /\ executor.macro_states[k].repeat_stack = <<>>
    /\ ~executor.macro_states[k].repeat_just_finished
    /\ executor.macro_states[k].current_index = Len(ExecutorConfig(k).actions) - 1

\* The step is a call of update().
Updated == last'.op = "update"

\* C16: when a Hold macro exhausts its list in an update(), then if its key
\* is still held it restarts at cursor 0 and keeps the slot, and if the key
\* is no longer held it becomes OFF and the slot is released.
C16_HoldCompletion ==
    [][\A k \in Keys :
          (/\ Updated
           /\ ExecutorConfig(k).type = "hold"
           /\ AtLastAction(k)) =>
              IF executor.macro_states[k].is_key_held
              THEN /\ executor'.currently_executing = k
                   /\ executor'.macro_states[k].is_active
                   /\ executor'.macro_states[k].is_executing
                   /\ executor'.macro_states[k].current_index = 0
              ELSE /\ ~executor'.macro_states[k].is_active
                   /\ executor'.currently_executing # k]_vars

\* Macro k holds the slot and the next update() finds its list exhausted:
\* either the cursor is past the last action, or it is on a last action
\* that has no wait of its own.
Exhausts(k) ==
    LET s    == executor.macro_states[k]
        acts == ExecutorConfig(k).actions
    IN  /\ Holder = k
        /\ s.is_active
        /\ s.is_executing
        /\ s.wait_until = None
        /\ s.repeat_stack = <<>>
        /\ ~s.repeat_just_finished
        /\ \/ s.current_index = Len(acts)
           \/ /\ s.current_index = Len(acts) - 1
              /\ acts[Len(acts)].type = "press"
              /\ acts[Len(acts)].wait = 0

\* C17: when a Press (once) macro holding the slot exhausts its list in an
\* update(), it is OFF afterwards, it no longer holds the slot, and the queue
\* is drained into the freed slot (its head, if there is one, holds the slot
\* when the update returns); and a Press macro that is OFF and not queued
\* becomes active only in the step in which its key is pressed.
C17_PressCompletion ==
    [][/\ \A k \in Keys :
             (/\ Updated
              /\ ExecutorConfig(k).type = "once"
              /\ Exhausts(k)) =>
                 /\ ~executor'.macro_states[k].is_active
                 /\ executor'.currently_executing # k
                 /\ Queue # <<>> =>
                       /\ executor'.currently_executing = Head(Queue)
                       /\ executor'.execution_queue = Tail(Queue)
       /\ \A k \in Keys :
             (/\ ExecutorConfig(k).type = "once"
              /\ ~executor.macro_states[k].is_active
              /\ k \notin Range(Queue)
              /\ executor'.macro_states[k].is_active) => Pressed(k)]_vars

\* C18: when a Toggle holding the slot exhausts its list in an update(), it
\* stays active, its cursor is back at 0, its cycle-wait deadline is armed
\* and it no longer holds the slot; and if the queue was not empty, the head
\* of the queue holds the slot when that same update returns.
C18_ToggleCompletion ==
    [][\A k \in Keys :
          (/\ Updated
           /\ ExecutorConfig(k).type = "toggle"
           /\ AtLastAction(k)) =>
              /\ executor'.macro_states[k].is_active
              /\ executor'.macro_states[k].current_index = 0
              /\ executor'.macro_states[k].wait_until # None
              /\ executor'.currently_executing # k
              /\ Queue # <<>> =>
                    /\ executor'.currently_executing = Head(Queue)
                    /\ executor'.execution_queue = Tail(Queue)]_vars

(***************************************************************************)
(* SpecZeroWait: the MacroExecutor constructed with four macros, the       *)
(* fourth a toggle whose last action has no wait.  Only the one-shot       *)
(* (key 1) and that toggle (key 3) are pressed.                            *)
(***************************************************************************)
ZeroWaitKeys == 0 .. 3
ZeroWaitPressed == {1, 3}

ZeroWaitInit ==
    /\ executor = [MacroExecutor_init EXCEPT
                      !.macro_states = [k \in ZeroWaitKeys |-> LegacyState_init]]
    /\ engine = MacroEngine_init(0)
    /\ profile = 0
    /\ pc = "encoder"
    /\ key_down = {}
    /\ last = Call("init", None, None)
    /\ manager = QueueManager_init

ZeroWaitKeyPress ==
    \E k \in ZeroWaitPressed :
        /\ KeypadPress(k)
        /\ executor' = MacroExecutor_handle_key_press([executor EXCEPT !.out = <<>>], k)
        /\ last' = Call("press", k, executor.currently_executing)
        /\ UNCHANGED <<engine, profile, pc, manager>>

ZeroWaitKeyRelease ==
    \E k \in ZeroWaitPressed :
        /\ KeypadRelease(k)
        /\ executor' = MacroExecutor_handle_key_release([executor EXCEPT !.out = <<>>], k)
        /\ last' = Call("release", k, executor.currently_executing)
        /\ UNCHANGED <<engine, profile, pc, manager>>

ZeroWaitUpdate ==
    /\ executor' = MacroExecutor_update(executor)
    /\ last' = Call("update", None, executor.currently_executing)
    /\ UNCHANGED <<engine, profile, pc, key_down, manager>>

ZeroWaitTimePasses ==
    /\ executor' = [executor EXCEPT !.macro_states =
                       [k \in ZeroWaitKeys |-> [@[k] EXCEPT !.wait_until = Elapse(@)]],
                    !.out = <<>>]
    /\ last' = Call("time", None, executor.currently_executing)
    /\ UNCHANGED <<engine, profile, pc, key_down, manager>>

ZeroWaitNext ==
    \/ ZeroWaitKeyPress
    \/ ZeroWaitKeyRelease
    \/ ZeroWaitUpdate
    \/ ZeroWaitTimePasses

SpecZeroWait == ZeroWaitInit /\ [][ZeroWaitNext]_vars

\* The wait configured after the last action of macro k's list: the delay
\* between two cycles of a looping macro.
CycleWait(k) ==
    LET acts == ExecutorConfig(k).actions
        a    == acts[Len(acts)]
    IN  IF a.type = "wait" THEN a.ms ELSE a.wait

\* C19: when a Toggle whose cycle wait is 0 completes a cycle in an update(),
\* it is re-queued at once with no delay: after the update it is active, no
\* deadline is armed for it, and it holds the slot or is in the queue.
C19_ZeroWaitToggleRequeued ==
    [][\A k \in ZeroWaitKeys :
          (/\ Updated
           /\ ExecutorConfig(k).type = "toggle"
           /\ CycleWait(k) = 0
           /\ AtLastAction(k)) =>
              /\ executor'.macro_states[k].is_active
              /\ executor'.macro_states[k].wait_until = None
              /\ \/ executor'.currently_executing = k
                 \/ k \in Range(executor'.execution_queue)]_vars

(***************************************************************************)
(* SpecFifo: a QueueManager used the way an engine uses it -- keys are     *)
(* put into the slot or appended to the queue, removed, and popped --,     *)
(* with the last call and the key it returned recorded in `last`.          *)
(***************************************************************************)
FifoInit ==
    /\ executor = MacroExecutor_init
    /\ engine = MacroEngine_init(0)
    /\ profile = 0
    /\ pc = "encoder"
    /\ key_down = {}
    /\ last = Call("init", None, None)
    /\ manager = QueueManager_init

FifoSetSlot ==
    \E k \in Keys :
        /\ manager' = QueueManager_set_slot(manager, k)
        /\ last' = Call("set_slot", k, manager.slot)
        /\ UNCHANGED <<executor, engine, profile, pc, key_down>>

FifoTryAdd ==
    \E k \in Keys :
        /\ manager' = QueueManager_try_add_to_queue(manager, k).qm
        /\ last' = Call("try_add", k, manager.slot)
        /\ UNCHANGED <<executor, engine, profile, pc, key_down>>

FifoRemove ==
    \E k \in Keys :
        /\ manager' = QueueManager_remove_from_queue(manager, k).qm
        /\ last' = Call("remove", k, manager.slot)
        /\ UNCHANGED <<executor, engine, profile, pc, key_down>>

FifoPop ==
    /\ manager' = QueueManager_pop_next_from_queue(manager).qm
    /\ last' = Call("pop", QueueManager_pop_next_from_queue(manager).key, manager.slot)
    /\ UNCHANGED <<executor, engine, profile, pc, key_down>>

FifoNext ==
    \/ FifoSetSlot
    \/ FifoTryAdd
    \/ FifoRemove
    \/ FifoPop

SpecFifo == FifoInit /\ [][FifoNext]_vars

\* C20: the queue hands out its entries in the order in which they were
\* enqueued: a call of pop_next_from_queue returns the oldest entry and
\* removes it, leaving the remaining entries in their order and the slot as
\* it was; on an empty queue it returns None and changes nothing.
C20_PopIsFifo ==
    [][FifoPop =>
          IF manager.queue = <<>>
          THEN /\ last'.key = None
               /\ manager' = manager
          ELSE /\ last'.key = manager.queue[1]
               /\ Len(manager'.queue) = Len(manager.queue) - 1
               /\ \A i \in 1 .. Len(manager'.queue) :
                     manager'.queue[i] = manager.queue[i + 1]
               /\ manager'.slot = manager.slot]_vars

\* C20's case: a pop has just returned key 2 and left a queue that still
\* holds two entries, the older one in front.
C20_PoppedOldest ==
    /\ last.op = "pop"
    /\ last.key = 2
    /\ manager.queue = <<0, 1>>

(***************************************************************************)
(* SpecManager: single calls of a QueueManager with their results.  Every  *)
(* call leaves in `last` its name, its argument, the slot and the queue    *)
(* length it found, and the value it returned.  The manager starts empty   *)
(* or one entry short of MAX_QUEUE_SIZE.                                   *)
(***************************************************************************)
Returned(op, key, qm, ok) ==
    [op |-> op, key |-> key, slot |-> qm.slot, len |-> Len(qm.queue), ok |-> ok]

ManagerInit ==
    /\ executor = MacroExecutor_init
    /\ engine = MacroEngine_init(0)
    /\ profile = 0
    /\ pc = "encoder"
    /\ key_down = {}
    /\ last = Returned("init", None, QueueManager_init, TRUE)
    /\ manager \in {QueueManager_init,
                    [QueueManager_init EXCEPT !.queue = Filled(MAX_QUEUE_SIZE - 1)]}

ManagerSetSlotTo(k) ==
    /\ manager' = QueueManager_set_slot(manager, k)
    /\ last' = Returned("set_slot", k, manager, TRUE)
    /\ UNCHANGED <<executor, engine, profile, pc, key_down>>

ManagerSetSlot == \E k \in {None, 1} : ManagerSetSlotTo(k)

ManagerTryAddKey(k) ==
    /\ manager' = QueueManager_try_add_to_queue(manager, k).qm
    /\ last' = Returned("try_add", k, manager,
                        QueueManager_try_add_to_queue(manager, k).ok)
    /\ UNCHANGED <<executor, engine, profile, pc, key_down>>

ManagerTryAdd == \E k \in QueueKeys : ManagerTryAddKey(k)

ManagerRemoveKey(k) ==
    /\ manager' = QueueManager_remove_from_queue(manager, k).qm
    /\ last' = Returned("remove", k, manager,
                        QueueManager_remove_from_queue(manager, k).ok)
    /\ UNCHANGED <<executor, engine, profile, pc, key_down>>

ManagerRemove == \E k \in QueueKeys : ManagerRemoveKey(k)

ManagerNext ==
    \/ ManagerSetSlot
    \/ ManagerTryAdd
    \/ ManagerRemove

SpecManager == ManagerInit /\ [][ManagerNext]_vars

C23_RemoveTakesOutOnlyTheId ==
    [][\A k \in QueueKeys :
          ManagerRemoveKey(k) =>
              /\ k \notin Range(manager'.queue)
              /\ manager'.queue = Without(manager.queue, k)
              /\ manager'.slot = manager.slot
              /\ last'.ok <=> k \in Range(manager.queue)]_vars

\* C23's case: with a macro in the slot, the last call removed an id from
\* the inside of a queue and left entries on both sides of it.
C23_RemovedFromInside ==
    /\ last.op = "remove"
    /\ last.ok
    /\ last.key = MAX_QUEUE_SIZE
    /\ last.len = Len(manager.queue) + 1
    /\ Len(manager.queue) >= 2
    /\ manager.queue[1] < MAX_QUEUE_SIZE
    /\ manager.queue[Len(manager.queue)] = MAX_QUEUE_SIZE + 1
    /\ manager.slot # None

\* C24: stop() called on a MacroState in whatever state it is leaves it
\* inactive with cursor 0, no deadline and an empty repeat stack, and a
\* second stop() right after it changes nothing.
C24_StopResetsAndIsIdempotent ==
    \A k \in Keys :
        LET s == LegacyState_stop(executor.macro_states[k])
        IN  /\ ~s.is_active
            /\ s.current_index = 0
            /\ s.wait_until = None
            /\ s.repeat_stack = <<>>
            /\ LegacyState_stop(s) = s

(***************************************************************************)
(* SpecRepeat: one macro of type press whose action list holds repeat      *)
(* blocks or actions of unknown type, started by its key and run to        *)
(* completion by the engine's                                              *)
(* execute phase.  `last` keeps the sequence of the actions other than     *)
(* Repeat that were handed to ActionExecutor.execute since the key press.  *)
(***************************************************************************)
MaxCount == 3
MaxTrace == 9

ActionA == Press(0)
ActionB == Wait(500)
ActionC == Press(500)

\* Action lists with a repeat block of plain actions.
FlatPrograms ==
    UNION {{<<Repeat(n, <<ActionA>>), ActionB>>,
            <<ActionC, Repeat(n, <<ActionA, ActionB>>), ActionA>>} : n \in 1 .. MaxCount}

\* Action lists with a repeat block inside a repeat block.
NestedPrograms ==
    {<<Repeat(2, <<ActionA, Repeat(2, <<ActionB>>), ActionA>>), ActionC>>,
     <<Repeat(1, <<Repeat(2, <<ActionA>>)>>), ActionB>>}

\* An action whose type ActionExecutor.execute does not know, with an inline
\* wait field.
Unknown(w) == [type |-> "unknown", wait |-> w, ms |-> 0, count |-> 0, actions |-> <<>>]

\* Action lists with actions of unknown type.
UnknownPrograms == {<<Unknown(0), Unknown(500), ActionA>>}

\* Action lists with a Repeat whose inner list is empty.
EmptyPrograms ==
    {<<Repeat(1, <<>>), ActionA>>, <<Repeat(2, <<>>), ActionA>>}

RepeatPrograms ==
    FlatPrograms \cup NestedPrograms \cup UnknownPrograms \cup EmptyPrograms

\* The action list with every repeat block written out count times.
RECURSIVE Flatten(_)
Flatten(actions) ==
    IF actions = <<>> THEN <<>>
    ELSE LET a    == Head(actions)
             rest == Flatten(Tail(actions))
             body == Flatten(a.actions)
             Times[i \in 0 .. a.count] == IF i = 0 THEN <<>> ELSE Times[i - 1] \o body
         IN  IF a.type = "repeat" THEN Times[a.count] \o rest ELSE <<a>> \o rest

IsPrefix(s, t) == Len(s) <= Len(t) /\ SubSeq(t, 1, Len(s)) = s

Ran(op, trace) == [op |-> op, key |-> 0, slot |-> None, trace |-> trace]

\* The actions in the engine's log that are not Repeat actions.
Executed(log) ==
    LET plain == SelectSeq(log, LAMBDA e : e.action.type # "repeat")
    IN  [i \in 1 .. Len(plain) |-> plain[i].action]

RepeatInit ==
    /\ executor = MacroExecutor_init
    /\ \E program \in RepeatPrograms :
          engine = [MacroEngine_init(0) EXCEPT !.macro_states =
                       [k \in Keys |-> MacroState_init(
                           [type |-> "press", wait |-> 0, actions |-> program])]]
    /\ profile = 0
    /\ pc = "encoder"
    /\ key_down = {}
    /\ last = Ran("init", <<>>)
    /\ manager = QueueManager_init

RepeatKeyPress ==
    /\ ~engine.macro_states[0].is_active
    /\ KeypadPress(0)
    /\ engine' = MacroEngine_handle_key_press([engine EXCEPT !.out = <<>>], 0)
    /\ last' = Ran("press", <<>>)
    /\ UNCHANGED <<executor, profile, pc, manager>>

RepeatKeyRelease ==
    /\ KeypadRelease(0)
    /\ engine' = MacroEngine_handle_key_release([engine EXCEPT !.out = <<>>], 0)
    /\ UNCHANGED <<executor, profile, pc, last, manager>>

RepeatExecute ==
    /\ engine.macro_states[0].is_active
    /\ Len(last.trace) < MaxTrace
    /\ engine' = MacroEngine_execute_active_macro([engine EXCEPT !.out = <<>>])
    /\ last' = Ran("execute", last.trace \o Executed(engine'.out))
    /\ UNCHANGED <<executor, profile, pc, key_down, manager>>

RepeatTimePasses ==
    /\ engine.macro_states[0].action_wait_until \notin {None, 0}
    /\ engine' = [engine EXCEPT
                     !.macro_states[0].action_wait_until = Elapse(@),
                     !.out = <<>>]
    /\ UNCHANGED <<executor, profile, pc, key_down, last, manager>>

RepeatNext ==
    \/ RepeatKeyPress
    \/ RepeatKeyRelease
    \/ RepeatExecute
    \/ RepeatTimePasses

SpecRepeat == RepeatInit /\ [][RepeatNext]_vars

\* C25: the actions executed for a list that contains Repeat{count = n,
\* actions = S} are those of the list with S written out n times in place of
\* the Repeat: what has been executed so far is always a beginning of the
\* written-out list, and when the macro completes it is the whole of it.
C25_RepeatIsInlining ==
    last.op = "execute" =>
        LET inlined == Flatten(engine.macro_states[0].actions)
        IN  /\ IsPrefix(last.trace, inlined)
            /\ ~engine.macro_states[0].is_active => last.trace = inlined

\* The top repeat frame of MacroState s has run its last iteration to the end.
FrameExhausted(s) ==
    LET n == Len(s.repeat_stack)
    IN  /\ n > 0
        /\ s.repeat_stack[n].current_index >= Len(s.repeat_stack[n].actions)
        /\ s.repeat_stack[n].current_count + 1 >= s.repeat_stack[n].max_count

\* The action that follows, in its parent, the Repeat action whose frame is
\* on top of s's repeat stack (NoAction when the macro is at its end).  The
\* parent is the frame below, or the top-level list when there is none; a
\* parent frame that ends there starts its next iteration or, when it is
\* exhausted too, is left in the same way.
RECURSIVE FallThrough(_)
FallThrough(s) ==
    LET n == Len(s.repeat_stack)
    IN  IF n = 1
        THEN IF s.current_action_index + 1 < Len(s.actions)
             THEN s.actions[s.current_action_index + 2]
             ELSE NoAction
        ELSE LET parent == s.repeat_stack[n - 1]
             IN  IF parent.current_index + 1 < Len(parent.actions)
                 THEN parent.actions[parent.current_index + 2]
                 ELSE IF parent.current_count + 1 < parent.max_count
                 THEN parent.actions[1]
                 ELSE FallThrough([s EXCEPT !.repeat_stack = SubSeq(@, 1, n - 1)])

\* C26: when the top repeat frame is exhausted, the next action the macro
\* executes is the one that follows the Repeat action in its parent -- the
\* enclosing frame if there is one, otherwise the top-level list --, or the
\* macro completes if nothing follows; the Repeat action is not executed again.
C26_ExhaustedFrameFallsThrough ==
    [][(/\ RepeatExecute
        /\ engine.macro_states[0].action_wait_until \in {None, 0}
        /\ FrameExhausted(engine.macro_states[0])) =>
           IF FallThrough(engine.macro_states[0]) = NoAction
           THEN /\ engine'.out = <<>>
                /\ ~engine'.macro_states[0].is_active
           ELSE /\ engine'.out # <<>>
                /\ engine'.out[1].action = FallThrough(engine.macro_states[0])]_vars

\* DisplayManager._format_toggle_line: what the line shows after the name,
\* a countdown ("time"), the queue mark ("Q") or "?".
DisplayManager_format_toggle_line(s) ==
    LET state_name == MacroState_get_state_name(s)
    IN  IF state_name \in {"SLEEPING", "WAIT", "ACTIVE"} THEN "time"
        ELSE IF state_name = "IN_QUEUE" THEN "Q"
        ELSE "?"

\* C27: the state name a macro reports to the display is IN_QUEUE exactly
\* when the macro is active, its key is in the queue, and it neither holds
\* the slot nor is sleeping; a queued macro is never reported as ACTIVE, and
\* its display line carries the queue mark.
C27_QueuedIsReportedInQueue ==
    \A k \in Keys :
        LET s      == engine.macro_states[k]
            queued == /\ s.is_active
                      /\ k \in Range(EngineQueue)
                      /\ Slot # k
                      /\ ~MacroState_is_sleeping(s)
        IN  /\ MacroState_get_state_name(s) = "IN_QUEUE" <=> queued
            /\ k \in Range(EngineQueue) => MacroState_get_state_name(s) # "ACTIVE"
            /\ queued => DisplayManager_format_toggle_line(s) = "Q"

\* C28: when a step of an iteration raises an exception, the loop performs
\* the emergency stop, starts the error blink and goes on with the next
\* iteration: right after it every macro is OFF, the slot and the queue are
\* empty, the blink is running, and the loop is at the start of an iteration
\* that it can take.
C28_ExceptionStopsAndContinues ==
    [][LoopException =>
          /\ \A k \in Keys :
                /\ MacroState_get_state_name(engine'.macro_states[k]) = "OFF"
                /\ engine'.macro_states[k].action_wait_until = None
                /\ engine'.macro_states[k].cycle_wait_until = None
                /\ engine'.macro_states[k].repeat_stack = <<>>
          /\ engine'.queue_manager.slot = None
          /\ engine'.queue_manager.queue = <<>>
          /\ MacroEngine_is_emergency_blinking(engine')
          /\ engine'.emergency_blink_left = ERROR_BLINK_MS
          /\ pc' = "encoder"
          /\ (ENABLED LoopStep)']_vars

\* C28's case: the exception hit while one macro held the slot and the key
\* of another toggle was down; the loop is back at the start of an iteration
\* and the slot is empty.
C28_FailedWhileBusy ==
    /\ last.op = "exception"
    /\ pc = "encoder"
    /\ last.slot # None
    /\ Slot = None
    /\ \E k \in Keys : k # last.slot /\ k \in key_down
                       /\ engine.macro_states[k].type = "toggle"

\* C29: on every profile switch the emergency stop runs before the new
\* profile is loaded: when the switch is done the engine holds the macros of
\* the new profile only, every one of them OFF as freshly constructed, and
\* the slot and the queue are empty, so nothing of the old profile is
\* active, in the slot or in the queue.
C29_ProfileSwitchStartsClean ==
    [][EncoderRotation =>
          /\ profile' # profile
          /\ \A k \in Keys :
                /\ engine'.macro_states[k] = MacroState_init(ProfileConfig(profile', k))
                /\ MacroState_get_state_name(engine'.macro_states[k]) = "OFF"
          /\ engine'.queue_manager.slot = None
          /\ engine'.queue_manager.queue = <<>>]_vars

\* C29's case: the profile was switched while a macro of the old profile
\* held the slot.
C29_SwitchedWhileRunning ==
    /\ last.op = "load_profile"
    /\ pc = "button"
    /\ last.slot # None
    /\ Slot = None

\* The action types ActionExecutor.execute has a branch for.
KnownTypes ==
    {"press", "click", "move", "scroll", "wait", "wait_random", "type", "repeat"}

\* C30: ActionExecutor.execute on an action of unknown type drives no output
\* device, leaves the macro state alone and returns wait 0, whatever other
\* fields the action carries.
C30_UnknownActionIsNoOp ==
    \A i \in 1 .. Len(engine.out) :
        engine.out[i].action.type \notin KnownTypes =>
            LET x == ActionExecutor_execute(engine.out[i].action,
                                            engine.macro_states[engine.out[i].key])
            IN  /\ x.wait_ms = 0
                /\ ~x.output
                /\ x.s = engine.macro_states[engine.out[i].key]

(***************************************************************************)
(* The phases of MacroExecutor.update(), under SpecExecutor.               *)
(***************************************************************************)

\* Macro k sleeps and its deadline has expired: step 1 of the next update()
\* wakes it.
Expired(k) ==
    /\ ExecutorSleeping(k)
    /\ Reached(executor.macro_states[k].wait_until)

\* The macros that step 1 of the next update() wakes, and the one it comes
\* to first (macro_states is iterated in key order).
Woken == {k \in Keys : Expired(k)}

FirstWoken == CHOOSE k \in Woken : \A j \in Woken : k <= j

\* Macro k took the slot in this update() and its first action was executed
\* in step 3 of it.
StartedInThisUpdate(k) ==
    LET a == ExecutorConfig(k).actions[1]
        s == executor'.macro_states[k]
    IN  /\ executor'.currently_executing = k
        /\ s.is_active /\ s.is_executing
        /\ executor'.out # <<>>
        /\ executor'.out[1].key = k
        /\ executor'.out[1].slot = k
        /\ IF a.wait > 0
           THEN s.wait_until = a.wait /\ s.current_index = 0
           ELSE s.wait_until = None /\ s.current_index = 1

\* C31: in an update(), a sleeping macro whose deadline has expired has the
\* deadline cleared; if the slot is free it takes the slot, starts at cursor
\* 0 and has its first action executed in step 3 of the same update(); if the
\* slot is occupied (by another macro, or by a macro woken just before it)
\* it is appended to the queue instead.
C31_ExpiredSleeperWakes ==
    [][(Updated /\ Woken # {}) =>
          \A k \in Woken :
              IF Holder = None /\ k = FirstWoken
              THEN StartedInThisUpdate(k)
              ELSE /\ executor'.macro_states[k].wait_until = None
                   /\ executor'.macro_states[k].current_index = 0
                   /\ executor'.currently_executing # k
                   /\ k \notin Range(Queue)
                   /\ \E i \in 1 .. Len(executor'.execution_queue) :
                         /\ executor'.execution_queue[i] = k
                         /\ i > Len(Queue)]_vars

\* An update() woke a macro into the free slot while a second macro, woken
\* in the same step, went to the queue.
C31_WokenIntoSlotAndQueue ==
    /\ last.op = "update"
    /\ last.slot = None
    /\ executor.out # <<>>
    /\ executor.currently_executing = executor.out[1].key
    /\ ExecutorConfig(executor.out[1].key).type # "once"
    /\ executor.execution_queue # <<>>
    /\ \E k \in Range(Queue) : ExecutorConfig(k).type # "once" /\ k # Holder

\* The queued keys whose macro is active, in queue order.
ActiveQueued == SelectSeq(Queue, LAMBDA k : executor.macro_states[k].is_active)

\* The entries of the queue in front of the first one whose macro is active
\* (all of them when none is).
RECURSIVE InactivePrefix(_)
InactivePrefix(q) ==
    IF q = <<>> THEN <<>>
    ELSE IF executor.macro_states[Head(q)].is_active THEN <<>>
    ELSE <<Head(q)>> \o InactivePrefix(Tail(q))

\* C32: in step 2 of an update() that finds the slot free (and wakes nobody
\* in step 1), the queue entries whose macro is no longer active are
\* discarded without being started, and the first active entry, if there is
\* one, receives the slot and is started from its first action; a macro that
\* is inactive when popped neither gets the slot nor becomes active again.
C32_InactiveQueuedDiscarded ==
    [][(Updated /\ Holder = None /\ Woken = {} /\ Queue # <<>>) =>
          LET dropped == InactivePrefix(Queue)
          IN  /\ \A k \in Range(dropped) :
                    /\ ~executor'.macro_states[k].is_active
                    /\ executor'.currently_executing # k
              /\ IF ActiveQueued = <<>>
                 THEN /\ executor'.currently_executing = None
                      /\ executor'.execution_queue = <<>>
                 ELSE /\ executor'.currently_executing = Head(ActiveQueued)
                      /\ executor'.out # <<>>
                      /\ executor'.out[1].key = Head(ActiveQueued)
                      /\ executor'.execution_queue =
                            SubSeq(Queue, Len(dropped) + 2, Len(Queue))]_vars

(***************************************************************************)
(* Properties of the MacroState cursor and of action waits, under          *)
(* SpecRepeat and Spec.                                                    *)
(***************************************************************************)

\* C33: in every reachable state the cursor of every MacroState satisfies
\* 0 <= cursor <= len(actions), also while repeat frames (nested or not) are
\* open and after they have been popped.
C33_CursorWithinList ==
    \A k \in Keys :
        /\ 0 <= engine.macro_states[k].current_action_index
        /\ engine.macro_states[k].current_action_index
              <= Len(engine.macro_states[k].actions)

(***************************************************************************)
(* SpecWait: the MacroExecutor constructed with five macros, the fifth a   *)
(* one-shot with a wait action of 0 ms.  Only the first toggle (key 0) and *)
(* that one-shot (key 4) are pressed.                                      *)
(***************************************************************************)
WaitKeys == 0 .. 4
WaitPressed == {0, 4}

WaitInit ==
    /\ executor = [MacroExecutor_init EXCEPT
                      !.macro_states = [k \in WaitKeys |-> LegacyState_init]]
    /\ engine = MacroEngine_init(0)
    /\ profile = 0
    /\ pc = "encoder"
    /\ key_down = {}
    /\ last = Call("init", None, None)
    /\ manager = QueueManager_init

WaitKeyPress ==
    \E k \in WaitPressed :
        /\ KeypadPress(k)
        /\ executor' = MacroExecutor_handle_key_press([executor EXCEPT !.out = <<>>], k)
        /\ last' = Call("press", k, executor.currently_executing)
        /\ UNCHANGED <<engine, profile, pc, manager>>

WaitKeyRelease ==
    \E k \in WaitPressed :
        /\ KeypadRelease(k)
        /\ executor' = MacroExecutor_handle_key_release([executor EXCEPT !.out = <<>>], k)
        /\ last' = Call("release", k, executor.currently_executing)
        /\ UNCHANGED <<engine, profile, pc, manager>>

WaitUpdate ==
    /\ executor' = MacroExecutor_update(executor)
    /\ last' = Call("update", None, executor.currently_executing)
    /\ UNCHANGED <<engine, profile, pc, key_down, manager>>

WaitTimePasses ==
    /\ executor' = [executor EXCEPT !.macro_states =
                       [k \in WaitKeys |-> [@[k] EXCEPT !.wait_until = Elapse(@)]],
                    !.out = <<>>]
    /\ last' = Call("time", None, executor.currently_executing)
    /\ UNCHANGED <<engine, profile, pc, key_down, manager>>

WaitNext ==
    \/ WaitKeyPress
    \/ WaitKeyRelease
    \/ WaitUpdate
    \/ WaitTimePasses

SpecWait == WaitInit /\ [][WaitNext]_vars

\* Macro k holds the slot and step 3 of the next update() executes the
\* top-level action a of its list (no wait pending, no repeat open).
AboutToExecute(k, a) ==
    LET s == executor.macro_states[k]
    IN  /\ Holder = k
        /\ s.is_active
        /\ s.is_executing
        /\ s.wait_until = None
        /\ s.repeat_stack = <<>>
        /\ s.current_index < Len(ExecutorConfig(k).actions)
        /\ a = ExecutorConfig(k).actions[s.current_index + 1]

\* The wait that action a asks for: the ms of a wait action, the inline wait
\* of any other (0 when absent).
WaitOf(a) == IF a.type = "wait" THEN a.ms ELSE a.wait

\* C34: an action whose wait is 0 or absent sets no deadline: after the
\* update() that executes it the macro has no deadline pending (it is not
\* in WAIT) and its cursor is on the next action, so that the next update()
\* executes that one without a deadline having to expire; this holds for a
\* wait action of 0 ms as for a press without wait.
C34_ZeroWaitSetsNoDeadline ==
    [][\A k \in WaitKeys : \A a \in Range(ExecutorConfig(k).actions) :
          (/\ Updated
           /\ AboutToExecute(k, a)
           /\ a.type \in {"press", "wait"}
           /\ WaitOf(a) = 0
           /\ ~LegacyState_is_last_action(k, executor.macro_states[k])) =>
              /\ executor'.macro_states[k].wait_until = None
              /\ executor'.macro_states[k].current_index =
                    executor.macro_states[k].current_index + 1]_vars

(***************************************************************************)
(* SpecRandom: ActionExecutor.execute called on actions with a random      *)
(* wait, one call per step; the number random.randint returns is any       *)
(* integer of its range, drawn independently at each call.                 *)
(***************************************************************************)

\* Largest bound of a random wait in the actions that are tried.
MaxRandom == 7

\* A wait_random action with its min and max.
WaitRandom(lo, hi) ==
    [type |-> "wait_random", wait |-> 0, ms |-> 0, count |-> 0, actions |-> <<>>,
     min |-> lo, max |-> hi]

\* A press action that carries an inline wait_random (and no wait).
PressRandom(lo, hi) ==
    [type |-> "press", wait |-> 0, ms |-> 0, count |-> 0, actions |-> <<>>,
     wait_random |-> [min |-> lo, max |-> hi]]

\* The actions execute is called on: min <= max, as validate_action demands.
RandomActions ==
    {WaitRandom(lo, hi) : lo \in 0 .. MaxRandom, hi \in 0 .. MaxRandom}
    \cup {PressRandom(lo, hi) : lo \in 0 .. MaxRandom, hi \in 0 .. MaxRandom}

\* The range the action asks its wait to be drawn from.
RandomRange(a) ==
    IF a.type = "wait_random" THEN [min |-> a.min, max |-> a.max]
    ELSE a.wait_random

\* ActionExecutor.execute where r is what random.randint(min_ms, max_ms)
\* returns if the call comes to it.
ActionExecutor_execute_random(action, s, r) ==
    IF action.type = "wait_random"
    THEN [s |-> s, wait_ms |-> r, output |-> FALSE]
    ELSE ActionExecutor_execute(action, s)

\* What a call of execute led to: the action and the wait it returned.
Waited(op, action, wait_ms) ==
    [op |-> op, key |-> 0, slot |-> None, action |-> action, wait_ms |-> wait_ms]

RandomInit ==
    /\ executor = MacroExecutor_init
    /\ engine = MacroEngine_init(0)
    /\ profile = 0
    /\ pc = "encoder"
    /\ key_down = {}
    /\ last = Waited("init", NoAction, 0)
    /\ manager = QueueManager_init

RandomExecute ==
    /\ \E a \in RandomActions :
          /\ RandomRange(a).min <= RandomRange(a).max
          /\ \E r \in RandomRange(a).min .. RandomRange(a).max :
                last' = Waited("execute", a,
                           ActionExecutor_execute_random(
                               a, engine.macro_states[0], r).wait_ms)
    /\ UNCHANGED <<executor, engine, profile, pc, key_down, manager>>

RandomNext == RandomExecute

SpecRandom == RandomInit /\ [][RandomNext]_vars

\* C35: for a wait_random action and for an action with an inline random
\* wait {min, max}, the wait that execute returns is an integer w with
\* min <= w <= max, whatever was drawn at earlier calls.
C35_RandomWaitInRange ==
    last.op = "execute" =>
        /\ RandomRange(last.action).min <= last.wait_ms
        /\ last.wait_ms <= RandomRange(last.action).max

\* C36: Press (one-shot) and Hold macros are never in the queue and never
\* sleep on a cycle-wait deadline -- only Toggle macros are enqueued or put
\* to sleep --, and interrupt_to_sleeping on a macro that is not a toggle
\* leaves its state as it is.
C36_OnlyTogglesQueueOrSleep ==
    /\ \A k \in Keys :
          ExecutorConfig(k).type # "toggle" =>
              /\ k \notin Range(Queue)
              /\ ~ExecutorSleeping(k)
    /\ \A k \in Keys :
          engine.macro_states[k].type # "toggle" =>
              MacroState_interrupt_to_sleeping(engine.macro_states[k])
                  = engine.macro_states[k]

\* Key a stands in front of key b in the queue q.
Before(q, a, b) ==
    \E i, j \in 1 .. Len(q) : i < j /\ q[i] = a /\ q[j] = b

\* The slot is held, or the call before this one was a key event that took
\* it from its holder (a toggle cancel, a hold release).
HeldOrJustFreed ==
    \/ Holder # None
    \/ last.op \in {"press", "release"} /\ last.slot # None

\* C37: a macro woken from SLEEP in an update() that finds macros waiting in
\* the queue does not take the slot ahead of them: after the update it is in
\* the queue, behind every macro that was queued before it woke (one of those
\* may have received the slot meanwhile).  This is so when the slot is held
\* and also when it has been freed by a toggle cancel or a hold release
\* since the previous update().
C37_WokenGoesBehindQueue ==
    [][(Updated /\ Woken # {} /\ Queue # <<>> /\ HeldOrJustFreed) =>
          \A k \in Woken :
              /\ executor'.currently_executing # k
              /\ k \in Range(executor'.execution_queue)
              /\ \A q \in Range(Queue) :
                    \/ executor'.currently_executing = q
                    \/ Before(executor'.execution_queue, q, k)]_vars

\* The number of keys of the macropad (code.py: range(12)).
MACROPAD_KEYS == 12

\* The macros the executor was constructed with.
Configured == DOMAIN executor.macro_states

\* C38: the queue never holds more entries than there are configured
\* macros, so with at most 12 configured keys, in the states reachable
\* through key events and updates, it never reaches the size at which
\* _try_start_macro takes its queue-full branch.
C38_QueueWithinConfigured ==
    /\ Len(Queue) <= Cardinality(Configured)
    /\ Cardinality(Configured) <= MACROPAD_KEYS =>
          Len(Queue) < EXECUTOR_MAX_QUEUE_SIZE

\* Every configured macro is in the queue, the slot holder too.
C38_EveryMacroQueued ==
    /\ Holder # None
    /\ Range(Queue) = Configured
    /\ Len(Queue) = Cardinality(Configured)

(***************************************************************************)
(* FairSpecRepeat: the macro of SpecRepeat run with the main loop going on *)
(* for ever -- the engine's phase 3 is called again and again and the      *)
(* clock advances.  No trace is kept, and a cursor that has passed the end *)
(* of the list is recorded as len(actions) + 1: the code only asks whether *)
(* current_action_index < len(actions), so all values past the end behave  *)
(* alike, and a run that never ends is a cycle of finitely many states.    *)
(***************************************************************************)

\* The engine with the cursor of macro 0 folded to at most len(actions) + 1.
FoldCursor(g) ==
    LET n == Len(g.macro_states[0].actions)
    IN  [g EXCEPT !.macro_states[0].current_action_index =
                      IF @ > n THEN n + 1 ELSE @]

FoldedExecute ==
    /\ engine.macro_states[0].is_active
    /\ engine' = FoldCursor(
                     MacroEngine_execute_active_macro([engine EXCEPT !.out = <<>>]))
    /\ last' = Ran("execute", <<>>)
    /\ UNCHANGED <<executor, profile, pc, key_down, manager>>

FoldedNext ==
    \/ RepeatKeyPress
    \/ RepeatKeyRelease
    \/ FoldedExecute
    \/ RepeatTimePasses

FairSpecRepeat ==
    RepeatInit /\ [][FoldedNext]_vars
        /\ WF_vars(FoldedExecute) /\ WF_vars(RepeatTimePasses)

\* C39: a Press macro with a finite action list that has been started and
\* is not preempted eventually is OFF with the slot released, as long as
\* ticks keep occurring and time advances; the lists include ones in which a
\* Repeat is nested inside another Repeat.
C39_PressMacroTerminates ==
    engine.macro_states[0].is_active
        ~> (/\ MacroState_get_state_name(engine.macro_states[0]) = "OFF"
            /\ Slot = None)

\* C40: get_current_action never fails: for every action list that
\* validate_action accepts, a Repeat with an empty inner list included, a
\* call in any reachable state returns an action or None and indexes no list
\* past its end.
C40_GetCurrentActionNeverFails ==
    \A k \in Keys :
        MacroState_get_current_action(engine.macro_states[k]).action # IndexError

====
